---- MODULE Spec2Model ----
(***************************************************************************)
(* A model of the webbrain script parser: src/parser.v2.js (class Parser)  *)
(* and the legacy class of src/unnamed/part_000.                           *)
(*                                                                         *)
(* Instructions are real strings; JavaScript values that are not always    *)
(* strings are tagged tuples (Str, Num, Bool, Obj, Null, Undefined, NaN)   *)
(* so that `undefined`, `null` and the string "n" stay distinct.           *)
(***************************************************************************)
EXTENDS Integers, Sequences, FiniteSets, TLC

VARIABLES
    instructions,              \* this.instructions
    stimulusInstructions,      \* this.stimulusInstructions
    preSequenceInstructions,   \* this.preSequenceInstructions
    mainSequenceInstructions,  \* this.mainSequenceInstructions
    postSequenceInstructions,  \* this.postSequenceInstructions
    stimulus,                  \* this.stimulus (own properties of the object)
    sequences,                 \* this.sequences (own properties of the object)
    pc,                        \* position of execute(): the stage that runs
                               \* next, "done", or the stage that threw
    error,                     \* the error that aborted execute(), or NoError
    calls,                     \* execute() calls begun on this instance
    other,                     \* the fields of a second Parser instance
    args,                      \* arguments of a static function under test
    ret                        \* what the static function returned or threw

vars == <<instructions, stimulusInstructions, preSequenceInstructions,
          mainSequenceInstructions, postSequenceInstructions, stimulus,
          sequences, pc, error, calls, other, args, ret>>

parserVars == <<instructions, stimulusInstructions, preSequenceInstructions,
                mainSequenceInstructions, postSequenceInstructions, stimulus,
                sequences, pc, error, calls, other>>

(***************************************************************************)
(* JavaScript values                                                       *)
(***************************************************************************)
Null == <<"null">>
Undefined == <<"undefined">>
NaN == <<"NaN">>
Num(n) == <<"number", n>>
Str(s) == <<"string", s>>
Bool(b) == <<"boolean", b>>
Obj(fields) == <<"object", fields>>

NoError == "none"
SectionNotFound == "SectionNotFound"
InvalidStimulusType == "InvalidStimulusType"
UnknownStimulusIdentifier == "UnknownStimulusIdentifier"
InvalidFeedbackType == "InvalidFeedbackType"
TypeError == "TypeError"
ReferenceError == "ReferenceError"

Returned(v) == [error |-> NoError, value |-> v]
Thrown(e) == [error |-> e, value |-> <<>>]

\* Array.prototype.slice(from, to) with 0-based, non-negative bounds.
Slice(arr, from, to) == SubSeq(arr, from + 1, IF to > Len(arr) THEN Len(arr) ELSE to)

\* arr[i] of a JavaScript array of strings (0-based); undefined past the end.
Elem(arr, i) == IF i < Len(arr) THEN Str(arr[i + 1]) ELSE Undefined

\* The i-th UTF-16 unit (0-based) of a string: text[i] and text.charAt(i).
CharAt(text, i) == SubSeq(text, i + 1, i + 1)

\* Characters outside the Basic Multilingual Plane, each a high surrogate
\* followed by a low surrogate.  Between them they hold every surrogate
\* unit SANY reads in a literal (D880-D8FF, D980-D9FF, DA80-DAFF, DB80-DBFF
\* and DC80-DCFF, DD80-DDFF, DE80-DEFF, DF80-DFFF), which are the surrogate
\* units a string of this module can hold.
SurrogatePairs ==
    "𰂀𰒁𰢂𰲃𱂄𱒅𱢆𱲇𲂈𲒉𲢊𲲋𳂌𳒍𳢎𳲏𴂐𴒑𴢒𴲓𵂔𵒕𵢖𵲗𶂘𶒙𶢚𶲛𷂜𷒝𷢞𷲟"
        \o "𸂠𸒡𸢢𸲣𹂤𹒥𹢦𹲧𺂨𺒩𺢪𺲫𻂬𻒭𻢮𻲯𼂰𼒱𼢲𼲳𽂴𽒵𽢶𽲷𾂸𾒹𾢺𾲻𿂼𿒽𿢾𿲿"
        \o "񀃀񀓁񀣂񀳃񁃄񁓅񁣆񁳇񂃈񂓉񂣊񂳋񃃌񃓍񃣎񃳏񄃐񄓑񄣒񄳓񅃔񅓕񅣖񅳗񆃘񆓙񆣚񆳛񇃜񇓝񇣞񇳟"
        \o "񈃠񈓡񈣢񈳣񉃤񉓥񉣦񉳧񊃨񊓩񊣪񊳫񋃬񋓭񋣮񋳯񌃰񌓱񌣲񌳳񍃴񍓵񍣶񍳷񎃸񎓹񎣺񎳻񏃼񏓽񏣾񏳿"
        \o "񰆀񰖁񰦂񰶃񱆄񱖅񱦆񱶇񲆈񲖉񲦊񲶋񳆌񳖍񳦎񳶏񴆐񴖑񴦒񴶓񵆔񵖕񵦖񵶗񶆘񶖙񶦚񶶛񷆜񷖝񷦞񷶟"
        \o "񸆠񸖡񸦢񸶣񹆤񹖥񹦦񹶧񺆨񺖩񺦪񺶫񻆬񻖭񻦮񻶯񼆰񼖱񼦲񼶳񽆴񽖵񽦶񽶷񾆸񾖹񾦺񾶻񿆼񿖽񿦾񿶿"
        \o "򀇀򀗁򀧂򀷃򁇄򁗅򁧆򁷇򂇈򂗉򂧊򂷋򃇌򃗍򃧎򃷏򄇐򄗑򄧒򄷓򅇔򅗕򅧖򅷗򆇘򆗙򆧚򆷛򇇜򇗝򇧞򇷟"
        \o "򈇠򈗡򈧢򈷣򉇤򉗥򉧦򉷧򊇨򊗩򊧪򊷫򋇬򋗭򋧮򋷯򌇰򌗱򌧲򌷳򍇴򍗵򍧶򍷷򎇸򎗹򎧺򎷻򏇼򏗽򏧾򏷿"
        \o "򰊀򰚁򰪂򰺃򱊄򱚅򱪆򱺇򲊈򲚉򲪊򲺋򳊌򳚍򳪎򳺏򴊐򴚑򴪒򴺓򵊔򵚕򵪖򵺗򶊘򶚙򶪚򶺛򷊜򷚝򷪞򷺟"
        \o "򸊠򸚡򸪢򸺣򹊤򹚥򹪦򹺧򺊨򺚩򺪪򺺫򻊬򻚭򻪮򻺯򼊰򼚱򼪲򼺳򽊴򽚵򽪶򽺷򾊸򾚹򾪺򾺻򿊼򿚽򿪾򿺿"
        \o "󀋀󀛁󀫂󀻃󁋄󁛅󁫆󁻇󂋈󂛉󂫊󂻋󃋌󃛍󃫎󃻏󄋐󄛑󄫒󄻓󅋔󅛕󅫖󅻗󆋘󆛙󆫚󆻛󇋜󇛝󇫞󇻟"
        \o "󈋠󈛡󈫢󈻣󉋤󉛥󉫦󉻧󊋨󊛩󊫪󊻫󋋬󋛭󋫮󋻯󌋰󌛱󌫲󌻳󍋴󍛵󍫶󍻷󎋸󎛹󎫺󎻻󏋼󏛽󏫾󏻿"
        \o "󰎀󰞁󰮂󰾃󱎄󱞅󱮆󱾇󲎈󲞉󲮊󲾋󳎌󳞍󳮎󳾏󴎐󴞑󴮒󴾓󵎔󵞕󵮖󵾗󶎘󶞙󶮚󶾛󷎜󷞝󷮞󷾟"
        \o "󸎠󸞡󸮢󸾣󹎤󹞥󹮦󹾧󺎨󺞩󺮪󺾫󻎬󻞭󻮮󻾯󼎰󼞱󼮲󼾳󽎴󽞵󽮶󽾷󾎸󾞹󾮺󾾻󿎼󿞽󿮾󿾿"
        \o "􀏀􀟁􀯂􀿃􁏄􁟅􁯆􁿇􂏈􂟉􂯊􂿋􃏌􃟍􃯎􃿏􄏐􄟑􄯒􄿓􅏔􅟕􅯖􅿗􆏘􆟙􆯚􆿛􇏜􇟝􇯞􇿟"
        \o "􈏠􈟡􈯢􈿣􉏤􉟥􉯦􉿧􊏨􊟩􊯪􊿫􋏬􋟭􋯮􋿯􌏰􌟱􌯲􌿳􍏴􍟵􍯶􍿷􎏸􎟹􎯺􎿻􏏼􏟽􏯾􏿿"

HighSurrogates ==
    {CharAt(SurrogatePairs, 2 * k) : k \in 0..(Len(SurrogatePairs) \div 2 - 1)}
LowSurrogates ==
    {CharAt(SurrogatePairs, 2 * k + 1) : k \in 0..(Len(SurrogatePairs) \div 2 - 1)}

\* Characters of one unit that are no surrogates, looked up first.
Ascii ==
    {" ", "!", "\"", "#", "$", "%", "&", "'", "(", ")", "*", "+",
     ",", "-", ".", "/", "0", "1", "2", "3", "4", "5", "6", "7",
     "8", "9", ":", ";", "<", "=", ">", "?", "@", "A", "B", "C",
     "D", "E", "F", "G", "H", "I", "J", "K", "L", "M", "N", "O",
     "P", "Q", "R", "S", "T", "U", "V", "W", "X", "Y", "Z", "[",
     "\\", "]", "^", "_", "a", "b", "c", "d", "e", "f", "g", "h",
     "i", "j", "k", "l", "m", "n", "o", "p", "q", "r", "s", "t",
     "u", "v", "w", "x", "y", "z", "{", "|", "}", "~"}

IsHighSurrogate(unit) == unit \notin Ascii /\ unit \in HighSurrogates
IsLowSurrogate(unit) == unit \notin Ascii /\ unit \in LowSurrogates

\* The code point that starts at unit i, as the string iterator of
\* `for (let char of text)` yields it: a high surrogate with the low
\* surrogate behind it is one character of two units, and any other unit,
\* a lone surrogate included, is a character by itself.
CodePointAt(text, i) ==
    IF /\ i + 1 < Len(text)
       /\ IsHighSurrogate(CharAt(text, i))
       /\ IsLowSurrogate(CharAt(text, i + 1))
    THEN SubSeq(text, i + 1, i + 2)
    ELSE CharAt(text, i)

\* Unit i is the second unit of a character: the iterator has yielded it
\* together with the high surrogate before it, which always starts a
\* character.
IsTrailingUnit(text, i) ==
    /\ i > 0
    /\ IsLowSurrogate(CharAt(text, i))
    /\ IsHighSurrogate(CharAt(text, i - 1))

(***************************************************************************)
(* String and number primitives of the JavaScript runtime: split on a      *)
(* one-character separator, trim, parseInt, string to number.              *)
(***************************************************************************)
\* The first of the positions `cuts` at or after position `from`.
NextCut(cuts, from) ==
    CHOOSE c \in cuts : c >= from /\ \A o \in cuts : o >= from => c <= o

\* The pieces of text from position `from` on, cut at the positions `cuts`.
RECURSIVE SplitPieces(_, _, _)
SplitPieces(text, cuts, from) ==
    IF \A c \in cuts : c < from
    THEN <<SubSeq(text, from + 1, Len(text))>>
    ELSE <<SubSeq(text, from + 1, NextCut(cuts, from))>>
             \o SplitPieces(text, cuts, NextCut(cuts, from) + 1)

\* String.prototype.split(separator) for a one-character separator: the
\* pieces between consecutive occurrences of the separator.
Split(text, separator) ==
    SplitPieces(text, {i \in 0..(Len(text) - 1) : CharAt(text, i) = separator}, 0)

\* The white space and line terminators that String.prototype.trim(),
\* parseInt and the conversion of a string to a number strip, as far as a
\* string of this notation can hold them: space, tab, line feed, form feed,
\* carriage return, and, written as the characters themselves, the vertical
\* tab U+000B, the no-break space U+00A0, the byte order mark U+FEFF and
\* the ogham space mark U+1680.  The runtime also strips U+2000 to U+200A,
\* U+2028, U+2029, U+202F, U+205F and U+3000.
WhiteSpace == {" ", "\t", "\n", "\f", "\r", "", " ", "﻿", " "}

\* String.prototype.trim().
RECURSIVE TrimStart(_)
TrimStart(text) ==
    IF text # "" /\ Head(text) \in WhiteSpace THEN TrimStart(Tail(text)) ELSE text

RECURSIVE TrimEnd(_)
TrimEnd(text) ==
    IF text # "" /\ CharAt(text, Len(text) - 1) \in WhiteSpace
    THEN TrimEnd(SubSeq(text, 1, Len(text) - 1))
    ELSE text

Trim(text) == TrimEnd(TrimStart(text))

Digits == {"0", "1", "2", "3", "4", "5", "6", "7", "8", "9"}
DigitValue(c) ==
    CASE c = "0" -> 0 [] c = "1" -> 1 [] c = "2" -> 2 [] c = "3" -> 3 [] c = "4" -> 4
      [] c = "5" -> 5 [] c = "6" -> 6 [] c = "7" -> 7 [] c = "8" -> 8 [] c = "9" -> 9

HexDigits ==
    Digits \cup {"a", "b", "c", "d", "e", "f", "A", "B", "C", "D", "E", "F"}
HexDigitValue(c) ==
    CASE c \in Digits -> DigitValue(c)
      [] c \in {"a", "A"} -> 10 [] c \in {"b", "B"} -> 11 [] c \in {"c", "C"} -> 12
      [] c \in {"d", "D"} -> 13 [] c \in {"e", "E"} -> 14 [] c \in {"f", "F"} -> 15

\* The digits of a literal of the given radix.
RadixDigits(radix) == {c \in HexDigits : HexDigitValue(c) < radix}

\* The number of leading characters of text from position i that are in the
\* alphabet.
RECURSIVE RadixRun(_, _, _)
RadixRun(text, i, alphabet) ==
    IF i < Len(text) /\ CharAt(text, i) \in alphabet
    THEN 1 + RadixRun(text, i + 1, alphabet)
    ELSE 0

\* The number of leading decimal digits of text from position i.
RECURSIVE DigitRun(_, _)
DigitRun(text, i) ==
    IF i < Len(text) /\ CharAt(text, i) \in Digits THEN 1 + DigitRun(text, i + 1) ELSE 0

RECURSIVE DecimalValue(_, _)
DecimalValue(text, acc) ==
    IF text = "" THEN acc
    ELSE DecimalValue(Tail(text), 10 * acc + DigitValue(Head(text)))

\* A string of decimal digits without its leading zeros, and the number of
\* zeros it ends with.
RECURSIVE StripZeros(_)
StripZeros(digits) ==
    IF digits # "" /\ Head(digits) = "0" THEN StripZeros(Tail(digits)) ELSE digits

RECURSIVE TrailingZeros(_)
TrailingZeros(digits) ==
    IF digits # "" /\ CharAt(digits, Len(digits) - 1) = "0"
    THEN 1 + TrailingZeros(SubSeq(digits, 1, Len(digits) - 1))
    ELSE 0

RECURSIVE Pow10(_)
Pow10(e) == IF e = 0 THEN 1 ELSE 10 * Pow10(e - 1)

\* digits * radix + carry on strings of decimal digits, so that a literal of
\* any length has a value.
DigitChar(n) == SubSeq("0123456789", n + 1, n + 1)

RECURSIVE MulAdd(_, _, _)
MulAdd(digits, radix, carry) ==
    IF digits = ""
    THEN IF carry = 0 THEN "" ELSE MulAdd("", radix, carry \div 10) \o DigitChar(carry % 10)
    ELSE LET v == DigitValue(CharAt(digits, Len(digits) - 1)) * radix + carry
         IN  MulAdd(SubSeq(digits, 1, Len(digits) - 1), radix, v \div 10)
                 \o DigitChar(v % 10)

\* The decimal digits of the value of a string of digits of the radix, which
\* for the radix 10 are the string.
RECURSIVE RadixValue(_, _, _)
RadixValue(text, radix, acc) ==
    IF text = "" THEN acc
    ELSE IF radix = 10 /\ acc = "" THEN text
    ELSE RadixValue(Tail(text), radix, MulAdd(acc, radix, HexDigitValue(Head(text))))

\* The numbers that are not an integer Num(n) of less than ten digits: the
\* negative zero, the infinities, and sign * digits * 10^exponent, where
\* digits neither starts nor ends with a zero.  A Decimal stands for the
\* double nearest to it, which is what the runtime holds.
NegativeZero == <<"number", 0, "negative">>
Infinity(sign) == <<"number", sign, "Infinity">>
Decimal(sign, digits, exponent) == <<"number", sign, digits, exponent>>

\* A zero with the sign of the literal.
Zero(sign) == IF sign < 0 THEN NegativeZero ELSE Num(0)

\* The order of 0.a and 0.b for strings of decimal digits that do not end
\* with a zero: -1, 0 or 1.
RECURSIVE CompareDigits(_, _)
CompareDigits(a, b) ==
    IF a = "" THEN (IF b = "" THEN 0 ELSE -1)
    ELSE IF b = "" THEN 1
    ELSE IF Head(a) # Head(b)
    THEN (IF DigitValue(Head(a)) < DigitValue(Head(b)) THEN -1 ELSE 1)
    ELSE CompareDigits(Tail(a), Tail(b))

\* The range of a double.  A magnitude of 2^1024 - 2^970 and more, which is
\* 0.OverflowDigits * 10^309, rounds to an infinity; one of 2^-1075 and
\* less, which is 0.UnderflowDigits * 10^-323, rounds to a zero.
OverflowDigits ==
    "179769313486231580793728971405303415079934132710037826936173"
        \o "778980444968292764750946649017977587207096330286416692887910"
        \o "946555547851940402630657488671505820681908902000708383676273"
        \o "854845817711531764475730270069855571366959622842914819860834"
        \o "936475292719074168444365510704342711559699508093042880177904"
        \o "174497792"

UnderflowDigits ==
    "247032822920623272088284396434110686182529901307162382212792"
        \o "841250337753635104375932649918180817996189898282347722858865"
        \o "463328355177969898199387398005390939063150356595155702263922"
        \o "908583924491051844359318028499365361525003193704576782492193"
        \o "656236698636584807570015857692699037063119282795585513329278"
        \o "343384093519780155312465972635795746227664652728272200563740"
        \o "064854999770965994704540208281662262378573934507363390079677"
        \o "619305775067401763246736009689513405355374585166611342237666"
        \o "786041621596804619144672918403005300575308490487653917113865"
        \o "916462395249126236538818796362393732804238910186723484976682"
        \o "350898633885879256283027559956575244555072551893136908362547"
        \o "791869486679949683240497058210285131854513962138377228261454"
        \o "37693412532098591327667236328125"

Overflows(d, e) ==
    Len(d) + e > 309 \/ (Len(d) + e = 309 /\ CompareDigits(d, OverflowDigits) >= 0)

Underflows(d, e) ==
    Len(d) + e < -323 \/ (Len(d) + e = -323 /\ CompareDigits(d, UnderflowDigits) <= 0)

\* The Number sign * d * 10^e, where d neither starts nor ends with a
\* zero: a magnitude past the range of a double is an infinity and one
\* below it a zero.
Scaled(sign, d, e) ==
    IF d = "" THEN Zero(sign)
    ELSE IF Overflows(d, e) THEN Infinity(sign)
    ELSE IF Underflows(d, e) THEN Zero(sign)
    ELSE IF e >= 0 /\ Len(d) + e <= 9 THEN Num(sign * DecimalValue(d, 0) * Pow10(e))
    ELSE Decimal(sign, d, e)

Normalised(sign, stripped, exponent) ==
    Scaled(sign, SubSeq(stripped, 1, Len(stripped) - TrailingZeros(stripped)),
           exponent + TrailingZeros(stripped))

\* The Number of the decimal sign * digits * 10^exponent.
FiniteNumber(sign, digits, exponent) == Normalised(sign, StripZeros(digits), exponent)

\* Whether text starts with 0 and one of the two letters.
HasPrefix(text, letters) ==
    Len(text) >= 2 /\ Head(text) = "0" /\ CharAt(text, 1) \in letters

\* The sign a text starts with, and the text behind it.
SignOf(text) == IF text # "" /\ Head(text) = "-" THEN -1 ELSE 1
Unsigned(text) == IF text # "" /\ Head(text) \in {"+", "-"} THEN Tail(text) ELSE text

\* The value of the first n digits of rest; NaN when there is none.
RunValue(sign, rest, radix, n) ==
    IF n = 0 THEN NaN
    ELSE FiniteNumber(sign, RadixValue(SubSeq(rest, 1, n), radix, ""), 0)

\* The value of the longest run of digits of the radix that rest starts with.
RadixPrefix(sign, rest, radix) ==
    RunValue(sign, rest, radix, RadixRun(rest, 0, RadixDigits(radix)))

\* The digits are hexadecimal behind a 0x or 0X, decimal otherwise.
IntegerPrefix(sign, body) ==
    RadixPrefix(sign,
                IF HasPrefix(body, {"x", "X"}) THEN SubSeq(body, 3, Len(body)) ELSE body,
                IF HasPrefix(body, {"x", "X"}) THEN 16 ELSE 10)

\* parseInt(value) without a radix: after white space and a sign, the
\* longest run of hexadecimal digits behind a 0x or 0X, of decimal digits
\* otherwise; NaN when the run is empty (also for undefined, which is read
\* as "undefined").
parseInt(value) ==
    IF value[1] # "string" THEN NaN
    ELSE IntegerPrefix(SignOf(TrimStart(value[2])), Unsigned(TrimStart(value[2])))

\* The value of the digits of an exponent, read exactly up to nine
\* significant digits. A longer one is 10^9 or more, which stands for every
\* such exponent: only a mantissa of about 10^9 digits could bring the number
\* back into the range of a double.
ExponentValue(digits) ==
    IF Len(StripZeros(digits)) > 9 THEN 1000000000 ELSE DecimalValue(StripZeros(digits), 0)

\* The digits of a mantissa with n1 digits before the point and n2 behind.
Mantissa(body, n1, n2) == SubSeq(body, 1, n1) \o SubSeq(body, n1 + 2, n1 + 1 + n2)

\* The text of the exponent of a literal whose mantissa ends at position m:
\* 0 when the literal ends there, empty when no exponent starts there.
ExponentText(body, m) ==
    IF m = Len(body) THEN "0"
    ELSE IF CharAt(body, m) \notin {"e", "E"} THEN ""
    ELSE SubSeq(body, m + 2, Len(body))

\* The literal with the given mantissa and exponent; NaN when the mantissa
\* has no digit or the exponent is not an optional sign and digits.
WithExponent(sign, mantissa, n2, text) ==
    IF mantissa = "" \/ Unsigned(text) = ""
           \/ DigitRun(Unsigned(text), 0) # Len(Unsigned(text))
    THEN NaN
    ELSE FiniteNumber(sign, mantissa, SignOf(text) * ExponentValue(Unsigned(text)) - n2)

\* The literal whose integer part has n1 digits and whose fraction n2.
WithFraction(sign, body, n1, n2, m) ==
    WithExponent(sign, Mantissa(body, n1, n2), n2, ExponentText(body, m))

\* The literal whose integer part has n1 digits: a point and the digits
\* of a fraction may follow them.
WithInteger(sign, body, n1) ==
    IF n1 < Len(body) /\ CharAt(body, n1) = "."
    THEN WithFraction(sign, body, n1, DigitRun(body, n1 + 1),
                      n1 + 1 + DigitRun(body, n1 + 1))
    ELSE WithFraction(sign, body, n1, 0, n1)

\* An unsigned decimal literal: digits, a fraction and an exponent, with a
\* digit before or after the point; NaN for any other text.
DecimalLiteral(sign, body) == WithInteger(sign, body, DigitRun(body, 0))

\* Infinity, or a decimal literal.
UnsignedLiteral(sign, body) ==
    IF body = "Infinity" THEN Infinity(sign) ELSE DecimalLiteral(sign, body)

\* The radix a prefix 0x, 0b or 0o announces; 10 without one.
RadixOf(text) ==
    IF HasPrefix(text, {"x", "X"}) THEN 16
    ELSE IF HasPrefix(text, {"b", "B"}) THEN 2
    ELSE IF HasPrefix(text, {"o", "O"}) THEN 8
    ELSE 10

\* An unsigned literal 0x.., 0b.. or 0o..: NaN unless digits of the radix,
\* and at least one, fill the rest.
RadixLiteral(rest, radix) ==
    IF rest = "" \/ RadixRun(rest, 0, RadixDigits(radix)) # Len(rest) THEN NaN
    ELSE FiniteNumber(1, RadixValue(rest, radix, ""), 0)

\* The number a string converts to: the empty string is 0, a numeric
\* literal (decimal with an optional sign, fraction and exponent, Infinity
\* with an optional sign, or unsigned hexadecimal, binary or octal) is its
\* value, every other text is NaN.
StringToNumber(text) ==
    IF text = "" THEN Num(0)
    ELSE IF RadixOf(text) # 10 THEN RadixLiteral(SubSeq(text, 3, Len(text)), RadixOf(text))
    ELSE UnsignedLiteral(SignOf(text), Unsigned(text))

\* Unary plus, and the multiplication by 1, on a token: the white space
\* around the text is dropped; undefined is NaN.
ToNumber(value) ==
    IF value[1] # "string" THEN NaN ELSE StringToNumber(Trim(value[2]))

(***************************************************************************)
(* extractInstructionsFromSection                                          *)
(***************************************************************************)
StartMarker(keyword) == "[" \o keyword \o "]"
EndMarker(keyword) == "[End" \o keyword \o "]"

\* The scan loop: returns <<sectionStartIndex, sectionEndIndex>>.
RECURSIVE ScanSectionFirstStart(_, _, _, _)
ScanSectionFirstStart(keyword, instrs, index, start) ==
    IF index >= Len(instrs) THEN <<start, Null>>
    ELSE LET instruction == instrs[index + 1] IN
         IF instruction = StartMarker(keyword)
         THEN ScanSectionFirstStart(keyword, instrs, index + 1,
                                    IF start \in {Null, Undefined} THEN Num(index) ELSE start)
         ELSE IF instruction = EndMarker(keyword)
         THEN <<start, Num(index)>>
         ELSE ScanSectionFirstStart(keyword, instrs, index + 1, start)

RECURSIVE ScanSectionEndAfterStart(_, _, _, _)
ScanSectionEndAfterStart(keyword, instrs, index, start) ==
    IF index >= Len(instrs) THEN <<start, Null>>
    ELSE LET instruction == instrs[index + 1] IN
         IF instruction = StartMarker(keyword)
         THEN ScanSectionEndAfterStart(keyword, instrs, index + 1, Num(index))
         ELSE IF instruction = EndMarker(keyword) /\ start \notin {Null, Undefined}
         THEN <<start, Num(index)>>
         ELSE ScanSectionEndAfterStart(keyword, instrs, index + 1, start)

RECURSIVE ScanSection(_, _, _, _)
ScanSection(keyword, instrs, index, start) ==
    IF index >= Len(instrs) THEN <<start, Null>>
    ELSE LET instruction == instrs[index + 1] IN
         IF instruction = StartMarker(keyword)
         THEN ScanSection(keyword, instrs, index + 1, Num(index))
         ELSE IF instruction = EndMarker(keyword)
         THEN <<start, Num(index)>>
         ELSE ScanSection(keyword, instrs, index + 1, start)

\* sectionStartIndex + 1 as a slice bound: undefined + 1 is NaN, which slice
\* reads as 0.
SliceFrom(start) == IF start[1] = "number" THEN start[2] + 1 ELSE 0

\* parser.v2.js: both indices start as null.
extractInstructionsFromSection(keyword, instrs) ==
    LET found == ScanSection(keyword, instrs, 0, Null)
        sectionStartIndex == found[1]
        sectionEndIndex == found[2]
    IN  IF sectionStartIndex = Null \/ sectionEndIndex = Null
        THEN Thrown(SectionNotFound)
        ELSE Returned(Slice(instrs, SliceFrom(sectionStartIndex), sectionEndIndex[2]))

\* Legacy class: `let sectionStartIndex, sectionEndIndex = null;` leaves
\* sectionStartIndex undefined, and undefined === null is false.
legacyExtractInstructionsFromSection(keyword, instrs) ==
    LET found == ScanSection(keyword, instrs, 0, Undefined)
        sectionStartIndex == found[1]
        sectionEndIndex == found[2]
    IN  IF sectionStartIndex = Null \/ sectionEndIndex = Null
        THEN Thrown(SectionNotFound)
        ELSE Returned(Slice(instrs, SliceFrom(sectionStartIndex), sectionEndIndex[2]))

(***************************************************************************)
(* splitWithEscapedCharacter                                               *)
(***************************************************************************)
\* A loop body in which the pair character is an ordinary character.
RECURSIVE SplitLoopNoToggle(_, _, _, _, _, _, _)
SplitLoopNoToggle(text, i, splitChar, pairChar, isPairOpen, resultArray, wordBuffer) ==
    IF i >= Len(text) THEN resultArray
    ELSE IF IsTrailingUnit(text, i)
    THEN SplitLoopNoToggle(text, i + 1, splitChar, pairChar, isPairOpen, resultArray, wordBuffer)
    ELSE LET char == CodePointAt(text, i) IN
         IF char = splitChar
         THEN SplitLoopNoToggle(text, i + 1, splitChar, pairChar, isPairOpen,
                                Append(resultArray, wordBuffer), "")
         ELSE SplitLoopNoToggle(text, i + 1, splitChar, pairChar, isPairOpen,
                                resultArray, wordBuffer \o char)

\* A loop that returns the buffer left in an open quoted span as a last token.
RECURSIVE SplitLoopFlushingOpenSpan(_, _, _, _, _, _, _)
SplitLoopFlushingOpenSpan(text, i, splitChar, pairChar, isPairOpen, resultArray, wordBuffer) ==
    IF i >= Len(text)
    THEN IF isPairOpen THEN Append(resultArray, wordBuffer) ELSE resultArray
    ELSE IF IsTrailingUnit(text, i)
    THEN SplitLoopFlushingOpenSpan(text, i + 1, splitChar, pairChar, isPairOpen, resultArray, wordBuffer)
    ELSE LET char == CodePointAt(text, i) IN
         IF char = pairChar
         THEN SplitLoopFlushingOpenSpan(text, i + 1, splitChar, pairChar, ~isPairOpen,
                                        resultArray, wordBuffer)
         ELSE IF char = splitChar
         THEN IF isPairOpen
              THEN SplitLoopFlushingOpenSpan(text, i + 1, splitChar, pairChar,
                                             isPairOpen, resultArray, wordBuffer \o char)
              ELSE SplitLoopFlushingOpenSpan(text, i + 1, splitChar, pairChar,
                                             isPairOpen, Append(resultArray, wordBuffer), "")
         ELSE SplitLoopFlushingOpenSpan(text, i + 1, splitChar, pairChar, isPairOpen,
                                        resultArray, wordBuffer \o char)

\* `for (let char of text) switch (char)`, a walk over code points: i runs
\* over the units of text, the second unit of a character is passed over,
\* and wordBuffer is kept as the string that wordBuffer.join("") would give.
RECURSIVE SplitLoop(_, _, _, _, _, _, _)
SplitLoop(text, i, splitChar, pairChar, isPairOpen, resultArray, wordBuffer) ==
    IF i >= Len(text) THEN resultArray
    ELSE IF IsTrailingUnit(text, i)
    THEN SplitLoop(text, i + 1, splitChar, pairChar, isPairOpen, resultArray, wordBuffer)
    ELSE LET char == CodePointAt(text, i) IN
         IF char = pairChar
         THEN SplitLoop(text, i + 1, splitChar, pairChar, ~isPairOpen,
                        resultArray, wordBuffer)
         ELSE IF char = splitChar
         THEN IF isPairOpen
              THEN SplitLoop(text, i + 1, splitChar, pairChar, isPairOpen,
                             resultArray, wordBuffer \o char)
              ELSE SplitLoop(text, i + 1, splitChar, pairChar, isPairOpen,
                             Append(resultArray, wordBuffer), "")
         ELSE SplitLoop(text, i + 1, splitChar, pairChar, isPairOpen,
                        resultArray, wordBuffer \o char)

\* A tokenizer that does not append the trailing delimiter.
splitWithEscapedCharacterNoFlush(text, splitChar, pairChar) ==
    SplitLoop(text, 0, splitChar, pairChar, FALSE, <<>>, "")

splitWithEscapedCharacter(text, splitChar, pairChar) ==
    SplitLoop(text \o splitChar, 0, splitChar, pairChar, FALSE, <<>>, "")

(***************************************************************************)
(* The stimulus catalog: a plain object created by `{}`                    *)
(***************************************************************************)
\* A plain object: its own properties and its prototype.  The prototype of
\* `{}` is Object.prototype; an entity has own properties only.
ObjectPrototype == <<"Object.prototype">>
EmptyObject == [own |-> <<>>, proto |-> ObjectPrototype]
OwnKeys(object) == DOMAIN object.own

\* Property names every plain object inherits from Object.prototype.
ObjectPrototypeKeys ==
    {"constructor", "toString", "toLocaleString", "valueOf", "hasOwnProperty",
     "isPrototypeOf", "propertyIsEnumerable", "__proto__", "__defineGetter__",
     "__defineSetter__", "__lookupGetter__", "__lookupSetter__"}

Inherited(key) == <<"inherited", key>>
Arr(elements) == <<"array", elements>>

\* The property key a value is converted to: undefined becomes "undefined".
PropertyKey(value) == IF value[1] = "string" THEN value[2] ELSE value[1]

\* object[key]: own properties first, then the prototype chain.  The
\* accessor __proto__ of Object.prototype reads the prototype; an entity
\* that was made the prototype lends its fields, and behind it is
\* Object.prototype.
GetProperty(object, key) ==
    IF key \in OwnKeys(object) THEN object.own[key]
    ELSE IF object.proto = Null THEN Undefined
    ELSE IF key = "__proto__" THEN object.proto
    ELSE IF object.proto[1] = "object" /\ key \in DOMAIN object.proto[2]
    THEN object.proto[2][key]
    ELSE IF key \in ObjectPrototypeKeys THEN Inherited(key)
    ELSE Undefined

\* object[key] = value.  The key __proto__ is an accessor of
\* Object.prototype: the assignment adds no own property, it makes an
\* object or null the prototype and ignores every other value (the program
\* assigns entities).  Every other key becomes an own property.
SetProperty(object, key, value) ==
    IF key = "__proto__" /\ object.proto # Null
    THEN IF value[1] = "object" \/ value = Null
         THEN [own |-> object.own, proto |-> value]
         ELSE object
    ELSE [own |-> (key :> value) @@ object.own, proto |-> object.proto]

\* The conversion of a value to a boolean, as a condition takes it.
ToBoolean(value) ==
    value \notin {Undefined, Null, NaN, Str(""), Num(0), NegativeZero, Bool(FALSE)}

\* getStimulusByIdentifier: the property read, returned when it is truthy.
getStimulusByIdentifier(catalog, stimulusIdentifier) ==
    LET found == GetProperty(catalog, stimulusIdentifier)
    IN  IF ToBoolean(found) THEN Returned(found) ELSE Thrown(UnknownStimulusIdentifier)

(***************************************************************************)
(* splitSection                                                            *)
(***************************************************************************)
\* The lines that follow the end marker of a section.
RestAfter(instrs, keyword) ==
    LET ends == {i \in 1..Len(instrs) : instrs[i] = EndMarker(keyword)}
    IN  IF ends = {} THEN <<>>
        ELSE SubSeq(instrs, (CHOOSE i \in ends : \A j \in ends : i <= j) + 1, Len(instrs))

\* A single pass over the script: each extraction scans only the lines that
\* follow the section extracted before it.
SplitSectionResultSequential(instrs, oldStimulus, oldPre, oldMain, oldPost) ==
    LET afterD == RestAfter(instrs, "Descriptions")
        afterP == RestAfter(afterD, "PreSeq")
        afterM == RestAfter(afterP, "MainSeq")
        d == extractInstructionsFromSection("Descriptions", instrs)
        p == extractInstructionsFromSection("PreSeq", afterD)
        m == extractInstructionsFromSection("MainSeq", afterP)
        q == extractInstructionsFromSection("PostSeq", afterM)
        okD == d.error = NoError
        okP == okD /\ p.error = NoError
        okM == okP /\ m.error = NoError
        okQ == okM /\ q.error = NoError
    IN  [stimulusInstructions |-> IF okD THEN d.value ELSE oldStimulus,
         preSequenceInstructions |-> IF okP THEN p.value ELSE oldPre,
         mainSequenceInstructions |-> IF okM THEN m.value ELSE oldMain,
         postSequenceInstructions |-> IF okQ THEN q.value ELSE oldPost,
         error |-> IF ~okD THEN d.error ELSE IF ~okP THEN p.error
                   ELSE IF ~okM THEN m.error ELSE q.error]

\* The four extractions in order; an assignment happens only if every
\* earlier extraction returned.
SplitSectionResult(instrs, oldStimulus, oldPre, oldMain, oldPost) ==
    LET d == extractInstructionsFromSection("Descriptions", instrs)
        p == extractInstructionsFromSection("PreSeq", instrs)
        m == extractInstructionsFromSection("MainSeq", instrs)
        q == extractInstructionsFromSection("PostSeq", instrs)
        okD == d.error = NoError
        okP == okD /\ p.error = NoError
        okM == okP /\ m.error = NoError
        okQ == okM /\ q.error = NoError
    IN  [stimulusInstructions |-> IF okD THEN d.value ELSE oldStimulus,
         preSequenceInstructions |-> IF okP THEN p.value ELSE oldPre,
         mainSequenceInstructions |-> IF okM THEN m.value ELSE oldMain,
         postSequenceInstructions |-> IF okQ THEN q.value ELSE oldPost,
         error |-> IF ~okD THEN d.error ELSE IF ~okP THEN p.error
                   ELSE IF ~okM THEN m.error ELSE q.error]

(***************************************************************************)
(* parseStimulus                                                           *)
(***************************************************************************)
\* A test for the presence of a value.
TruthyIfPresent(value) == value # Undefined

\* !!value
Truthy(value) == ToBoolean(value)

SizeOrNull(fontSize) == IF fontSize = Str("n") THEN Null ELSE parseInt(fontSize)
ColorOrNull(fontColor) == IF fontColor = Str("n") THEN Null ELSE fontColor

\* AUDIO / VIDEO case: `let [filePath] = splittedStimulusInstruction`.
AudioVideoStimulus(stimulusType, splitted) ==
    Obj([stimulusType |-> stimulusType, filePath |-> Elem(splitted, 0)])

\* A loop body whose switch has no default case: a line with any other type
\* tag is stored as the initial `{ stimulusType }` object.
DecodeStimulusNoDefault(catalog, currentStimulusInstruction) ==
    LET splitted == splitWithEscapedCharacter(currentStimulusInstruction, " ", "\"")
        stimulusType == Elem(splitted, 0)
        identifier == Elem(splitted, 1)
        left == Slice(splitted, 2, Len(splitted))
    IN  CASE stimulusType = Str("image") ->
               Returned(SetProperty(catalog, PropertyKey(identifier),
                   Obj([stimulusType |-> stimulusType,
                        filePath |-> Elem(left, 0),
                        button |-> Bool(Truthy(Elem(left, 1)))])))
          [] stimulusType = Str("text") ->
               Returned(SetProperty(catalog, PropertyKey(identifier),
                   Obj([stimulusType |-> stimulusType,
                        content |-> Elem(left, 0),
                        fontSize |-> SizeOrNull(Elem(left, 1)),
                        fontColor |-> ColorOrNull(Elem(left, 2))])))
          [] stimulusType = Str("text_file") ->
               Returned(SetProperty(catalog, PropertyKey(identifier),
                   Obj([stimulusType |-> stimulusType,
                        filePath |-> Elem(left, 0),
                        fontSize |-> SizeOrNull(Elem(left, 1)),
                        fontColor |-> ColorOrNull(Elem(left, 2))])))
          [] stimulusType \in {Str("audio"), Str("video")} ->
               Returned(SetProperty(catalog, PropertyKey(identifier),
                   AudioVideoStimulus(stimulusType, splitted)))
          [] OTHER ->
               Returned(SetProperty(catalog, PropertyKey(identifier),
                   Obj([stimulusType |-> stimulusType])))

\* One iteration of the loop of parseStimulus: the catalog after the
\* instruction, or the error thrown by the default case.
DecodeStimulus(catalog, currentStimulusInstruction) ==
    LET splitted == splitWithEscapedCharacter(currentStimulusInstruction, " ", "\"")
        stimulusType == Elem(splitted, 0)
        identifier == Elem(splitted, 1)
        left == Slice(splitted, 2, Len(splitted))
    IN  CASE stimulusType = Str("image") ->
               Returned(SetProperty(catalog, PropertyKey(identifier),
                   Obj([stimulusType |-> stimulusType,
                        filePath |-> Elem(left, 0),
                        button |-> Bool(Truthy(Elem(left, 1)))])))
          [] stimulusType = Str("text") ->
               Returned(SetProperty(catalog, PropertyKey(identifier),
                   Obj([stimulusType |-> stimulusType,
                        content |-> Elem(left, 0),
                        fontSize |-> SizeOrNull(Elem(left, 1)),
                        fontColor |-> ColorOrNull(Elem(left, 2))])))
          [] stimulusType = Str("text_file") ->
               Returned(SetProperty(catalog, PropertyKey(identifier),
                   Obj([stimulusType |-> stimulusType,
                        filePath |-> Elem(left, 0),
                        fontSize |-> SizeOrNull(Elem(left, 1)),
                        fontColor |-> ColorOrNull(Elem(left, 2))])))
          [] stimulusType \in {Str("audio"), Str("video")} ->
               Returned(SetProperty(catalog, PropertyKey(identifier),
                   AudioVideoStimulus(stimulusType, splitted)))
          [] OTHER -> Thrown(InvalidStimulusType)

\* The loop of parseStimulus: entries inserted before a throw stay.
RECURSIVE ParseStimulusLoop(_, _, _)
ParseStimulusLoop(instrs, index, catalog) ==
    IF index >= Len(instrs) THEN [stimulus |-> catalog, error |-> NoError]
    ELSE LET decoded == DecodeStimulus(catalog, instrs[index + 1]) IN
         IF decoded.error # NoError
         THEN [stimulus |-> catalog, error |-> decoded.error]
         ELSE ParseStimulusLoop(instrs, index + 1, decoded.value)

ParseStimulusResult(instrs, catalog) == ParseStimulusLoop(instrs, 0, catalog)

(***************************************************************************)
(* parseSequence                                                           *)
(***************************************************************************)
SentinelOrNumber(token) ==
    IF token = Str("inf") \/ token = Str("n") THEN token ELSE ToNumber(token)

\* The choices member: "n", or every identifier looked up in the catalog.
\* A line with fewer than four tokens has no choices token to split.
ResolveChoices(catalog, choices) ==
    IF choices = Str("n") THEN Returned(choices)
    ELSE IF choices = Undefined THEN Thrown(TypeError)
    ELSE LET identifiers == Split(choices[2], ",")
             found == [k \in 1..Len(identifiers) |->
                          getStimulusByIdentifier(catalog, identifiers[k])]
         IN  IF \E k \in 1..Len(identifiers) : found[k].error # NoError
             THEN Thrown(UnknownStimulusIdentifier)
             ELSE Returned(Arr([k \in 1..Len(identifiers) |-> found[k].value]))

\* A switch in which every case ends with a break.
FeedbackFieldsNoFallthrough(feedbackType, feedback1, feedback2) ==
    CASE feedbackType = Str("a") -> Returned([feedback1 |-> feedback1])
      [] feedbackType = Str("tf") -> Returned([feedback2 |-> feedback2])
      [] feedbackType \in {Str("n"), Str("c")} -> Returned(<<>>)
      [] OTHER -> Thrown(InvalidFeedbackType)

\* switch (feedbackType): the ALWAYS case falls through into TRUE_OR_FALSE.
FeedbackFields(feedbackType, feedback1, feedback2) ==
    CASE feedbackType = Str("a") ->
               Returned([feedback1 |-> feedback1, feedback2 |-> feedback2])
      [] feedbackType = Str("tf") -> Returned([feedback2 |-> feedback2])
      [] feedbackType \in {Str("n"), Str("c")} -> Returned(<<>>)
      [] OTHER -> Thrown(InvalidFeedbackType)

\* One iteration of the inner loop of parseSequence.
DecodeStep(catalog, instruction) ==
    LET splitted == Split(instruction, " ")
        choices == ResolveChoices(catalog, Elem(splitted, 3))
        feedbackType == Elem(splitted, 8)
        attached == FeedbackFields(feedbackType, Elem(splitted, 10), Elem(splitted, 11))
    IN  IF choices.error # NoError THEN Thrown(choices.error)
        ELSE IF attached.error # NoError THEN Thrown(attached.error)
        ELSE Returned(
            [onSetTime |-> ToNumber(Elem(splitted, 0)),
             identifier |-> Elem(splitted, 1),
             stimulusDuration |-> SentinelOrNumber(Elem(splitted, 2)),
             choices |-> choices.value,
             choiceDuration |-> SentinelOrNumber(Elem(splitted, 4)),
             answer |-> Elem(splitted, 5),
             choiceOnsetRelativeToSim |-> SentinelOrNumber(Elem(splitted, 6)),
             reactionTime |-> SentinelOrNumber(Elem(splitted, 7)),
             feedbackType |-> feedbackType,
             feedbackDuration |-> SentinelOrNumber(Elem(splitted, 9)),
             test |-> Elem(splitted, 12)] @@ attached.value)

\* An inner loop that pushes a step only if the buffer holds no equal step.
RECURSIVE DecodeSectionDeduplicating(_, _, _, _)
DecodeSectionDeduplicating(catalog, instrs, i, buffer) ==
    IF i >= Len(instrs) THEN Returned(buffer)
    ELSE LET step == DecodeStep(catalog, instrs[i + 1]) IN
         IF step.error # NoError THEN Thrown(step.error)
         ELSE IF \E k \in 1..Len(buffer) : buffer[k] = step.value
         THEN DecodeSectionDeduplicating(catalog, instrs, i + 1, buffer)
         ELSE DecodeSectionDeduplicating(catalog, instrs, i + 1,
                                         Append(buffer, step.value))

\* The inner loop: the buffer of one section, or the error of its first
\* failing instruction.
RECURSIVE DecodeSection(_, _, _, _)
DecodeSection(catalog, instrs, i, buffer) ==
    IF i >= Len(instrs) THEN Returned(buffer)
    ELSE LET step == DecodeStep(catalog, instrs[i + 1]) IN
         IF step.error # NoError THEN Thrown(step.error)
         ELSE DecodeSection(catalog, instrs, i + 1, Append(buffer, step.value))

SequenceNames == <<"pre_sequence", "main_sequence", "post_sequence">>

\* An outer loop whose buffer starts from the steps the sequence already has.
RECURSIVE ParseSequenceLoopAccumulating(_, _, _, _)
ParseSequenceLoopAccumulating(catalog, sections, k, seqs) ==
    IF k > Len(sections) THEN [sequences |-> seqs, error |-> NoError]
    ELSE LET kept == IF SequenceNames[k] \in OwnKeys(seqs)
                     THEN seqs.own[SequenceNames[k]] ELSE <<>>
             buffer == DecodeSection(catalog, sections[k], 0, kept)
         IN  IF buffer.error # NoError
             THEN [sequences |-> seqs, error |-> buffer.error]
             ELSE ParseSequenceLoopAccumulating(catalog, sections, k + 1,
                      SetProperty(seqs, SequenceNames[k], buffer.value))

\* The outer loop over SequenceInstructions: a section is assigned to
\* this.sequences when all its instructions are decoded.
RECURSIVE ParseSequenceLoop(_, _, _, _)
ParseSequenceLoop(catalog, sections, k, seqs) ==
    IF k > Len(sections) THEN [sequences |-> seqs, error |-> NoError]
    ELSE LET buffer == DecodeSection(catalog, sections[k], 0, <<>>) IN
         IF buffer.error # NoError
         THEN [sequences |-> seqs, error |-> buffer.error]
         ELSE ParseSequenceLoop(catalog, sections, k + 1,
                                SetProperty(seqs, SequenceNames[k], buffer.value))

ParseSequenceResult(catalog, pre, main, post, seqs) ==
    ParseSequenceLoop(catalog, <<pre, main, post>>, 1, seqs)

(***************************************************************************)
(* constructor, execute                                                    *)
(***************************************************************************)
\* rawInstructions.split("\n").map(trim)
Constructor(rawInstructions) ==
    LET lines == Split(rawInstructions, "\n")
    IN  [k \in 1..Len(lines) |-> Trim(lines[k])]

\* execute() on a freshly constructed parser: the stages in order, stopping
\* at the first throw.
Execute(instrs) ==
    LET split == SplitSectionResult(instrs, <<>>, <<>>, <<>>, <<>>)
        stim == ParseStimulusResult(split.stimulusInstructions, EmptyObject)
        seq == ParseSequenceResult(stim.stimulus, split.preSequenceInstructions,
                                   split.mainSequenceInstructions,
                                   split.postSequenceInstructions, EmptyObject)
    IN  IF split.error # NoError
        THEN [stimulus |-> EmptyObject, sequences |-> EmptyObject, error |-> split.error]
        ELSE IF stim.error # NoError
        THEN [stimulus |-> stim.stimulus, sequences |-> EmptyObject, error |-> stim.error]
        ELSE [stimulus |-> stim.stimulus, sequences |-> seq.sequences, error |-> seq.error]

(***************************************************************************)
(* Bounds and inputs of the extraction specification                       *)
(***************************************************************************)
MaxList == 4

ExtractKeywords == {"PreSeq", "MainSeq"}
ExtractLines == {"[PreSeq]", "[EndPreSeq]", "[MainSeq]", "[EndMainSeq]", "x", ""}

SeqsUpTo(S, n) == UNION {[1..k -> S] : k \in 0..n}

NotCalled == [fn |-> "none", error |-> NoError, value |-> <<>>]
Called(fn, outcome) == [fn |-> fn, error |-> outcome.error, value |-> outcome.value]

Idle == "idle"

\* No second instance has been constructed.
NoOther == [pc |-> Idle]

ParserIdle ==
    /\ instructions = <<>>
    /\ stimulusInstructions = <<>>
    /\ preSequenceInstructions = <<>>
    /\ mainSequenceInstructions = <<>>
    /\ postSequenceInstructions = <<>>
    /\ stimulus = EmptyObject
    /\ sequences = EmptyObject
    /\ pc = Idle
    /\ error = NoError
    /\ calls = 0
    /\ other = NoOther

InitExtract ==
    /\ ParserIdle
    /\ args \in {<<k, l>> : k \in ExtractKeywords, l \in SeqsUpTo(ExtractLines, MaxList)}
    /\ ret = NotCalled

CallExtract ==
    /\ ret = NotCalled
    /\ Len(args) = 2
    /\ ret' = Called("extractInstructionsFromSection",
                     extractInstructionsFromSection(args[1], args[2]))
    /\ UNCHANGED <<parserVars, args>>

CallLegacyExtract ==
    /\ ret = NotCalled
    /\ Len(args) = 2
    /\ ret' = Called("legacyExtractInstructionsFromSection",
                     legacyExtractInstructionsFromSection(args[1], args[2]))
    /\ UNCHANGED <<parserVars, args>>

(***************************************************************************)
(* Bounds and inputs of the tokenizer specification                        *)
(***************************************************************************)
MaxText == 6

TextAlphabet == {"a", " ", "\"", ","}
ExampleTexts == {"a \"b c\" d", "x"}

RECURSIVE Concat(_)
Concat(chars) == IF chars = <<>> THEN "" ELSE Head(chars) \o Concat(Tail(chars))

Texts == {Concat(cs) : cs \in SeqsUpTo(TextAlphabet, MaxText)} \cup ExampleTexts

InitSplit ==
    /\ ParserIdle
    /\ args \in {<<t, d, "\"">> : t \in Texts, d \in {" ", ","}}
    /\ ret = NotCalled

CallSplit ==
    /\ ret = NotCalled
    /\ Len(args) = 3
    /\ ret' = Called("splitWithEscapedCharacter",
                     Returned(splitWithEscapedCharacter(args[1], args[2], args[3])))
    /\ UNCHANGED <<parserVars, args>>

NextSplit == CallSplit

SpecSplit == InitSplit /\ [][NextSplit]_vars

NextExtract == CallExtract \/ CallLegacyExtract

SpecExtract == InitExtract /\ [][NextExtract]_vars

(***************************************************************************)
(* Bounds and inputs of the parser specifications                          *)
(***************************************************************************)
MaxLines == 2
MaxOrderLines == 2
MaxTruncatedLines == 1

DescriptionLines ==
    {"image I1 a.png true",
     "image I1 b.png",
     "text I2 \"hi yo\" n n",
     "text_file I3 f.txt 12px red",
     "audio A1 s.mp3",
     "video V1 m.mp4",
     "result R1 r.txt",
     ""}

SequenceLines ==
    {"0 s1 100 n inf n 0 n a 10 f1 f2 y",
     "5 s2 inf n 200 0 10 300 tf 50 f1 f2 n",
     "0 s3 n I1,A1 inf 0 0 n c n f1 f2 y",
     "0 s4 100 I1 inf 1 0 n n n n n y",
     "0 s5 100 n inf n 0 n zz n f1 f2 y",
     "0 s6 100 I1,nope inf n 0 n a n f1 f2 y",
     "0 s7 100 constructor inf n 0 n n n n n y",
     "0 s8 100 n",
     "0 s9 100 nope inf n 0 n zz n f1 f2 y",
     ""}

OrderDescriptionLines == {"image I1 a.png true", "audio A1 s.mp3", "result R1 r.txt"}
OrderSequenceLines ==
    {"0 s1 100 n inf n 0 n a 10 f1 f2 y",
     "0 s4 100 I1 inf 1 0 n n n n n y",
     "0 s5 100 n inf n 0 n zz n f1 f2 y"}

SectionKeywords == <<"Descriptions", "PreSeq", "MainSeq", "PostSeq">>

\* The contents of the four sections: at most n lines in all.
Contents(D, S, n) ==
    UNION {[1..l[1] -> D] \X [1..l[2] -> S] \X [1..l[3] -> S] \X [1..l[4] -> S] :
           l \in {m \in (0..n) \X (0..n) \X (0..n) \X (0..n) :
                     m[1] + m[2] + m[3] + m[4] <= n}}

Permutations4 == {q \in [1..4 -> 1..4] : \A i, j \in 1..4 : q[i] = q[j] => i = j}

RECURSIVE JoinLines(_)
JoinLines(lines) ==
    IF lines = <<>> THEN ""
    ELSE IF Len(lines) = 1 THEN lines[1]
    ELSE lines[1] \o "\n" \o JoinLines(Tail(lines))

Indented(lines) == [k \in 1..Len(lines) |-> "  " \o lines[k] \o " "]

\* The text of one section: its markers around its indented lines; a
\* truncated section has lost its end marker.
BlockText(keyword, lines, truncated) ==
    JoinLines(<<StartMarker(keyword)>> \o Indented(lines) \o
              (IF truncated THEN <<>> ELSE <<EndMarker(keyword) \o " ">>))

\* A script: a title line, then the four sections in the order `order`;
\* section `missing` (0 for none) is truncated.
RawScript(order, content, missing) ==
    JoinLines(<<"Task WM Test">> \o
              [k \in 1..4 |-> BlockText(SectionKeywords[order[k]], content[order[k]],
                                        order[k] = missing)])

CanonicalOrder == <<1, 2, 3, 4>>

Constructed(rawInstructions) ==
    /\ instructions = Constructor(rawInstructions)
    /\ stimulusInstructions = <<>>
    /\ preSequenceInstructions = <<>>
    /\ mainSequenceInstructions = <<>>
    /\ postSequenceInstructions = <<>>
    /\ stimulus = EmptyObject
    /\ sequences = EmptyObject
    /\ pc = "splitSection"
    /\ error = NoError
    /\ calls = 1
    /\ other = NoOther
    /\ args = <<>>
    /\ ret = NotCalled

\* Complete scripts of at most MaxLines lines, and scripts of at most
\* MaxTruncatedLines lines in which one section has lost its end marker.
Init ==
    \/ \E content \in Contents(DescriptionLines, SequenceLines, MaxLines) :
           Constructed(RawScript(CanonicalOrder, content, 0))
    \/ \E content \in Contents(DescriptionLines, SequenceLines, MaxTruncatedLines) :
           \E missing \in 1..4 :
               Constructed(RawScript(CanonicalOrder, content, missing))

InitOrder ==
    \E order \in Permutations4 :
        \E content \in Contents(OrderDescriptionLines, OrderSequenceLines, MaxOrderLines) :
            Constructed(RawScript(order, content, 0))

(***************************************************************************)
(* The stages of execute() as steps of one Parser instance                 *)
(***************************************************************************)
\* The position of an execute() that a stage left by throwing.
Threw(stage) == stage \o " threw"
Failed == pc \in {Threw("splitSection"), Threw("parseStimulus"), Threw("parseSequence")}

splitSection ==
    /\ pc = "splitSection"
    /\ LET split == SplitSectionResult(instructions, stimulusInstructions,
                                       preSequenceInstructions,
                                       mainSequenceInstructions,
                                       postSequenceInstructions)
       IN  /\ stimulusInstructions' = split.stimulusInstructions
           /\ preSequenceInstructions' = split.preSequenceInstructions
           /\ mainSequenceInstructions' = split.mainSequenceInstructions
           /\ postSequenceInstructions' = split.postSequenceInstructions
           /\ error' = split.error
           /\ pc' = IF split.error = NoError THEN "parseStimulus" ELSE Threw("splitSection")
    /\ UNCHANGED <<instructions, stimulus, sequences, calls, other, args, ret>>

parseStimulus ==
    /\ pc = "parseStimulus"
    /\ LET parsed == ParseStimulusResult(stimulusInstructions, stimulus)
       IN  /\ stimulus' = parsed.stimulus
           /\ error' = parsed.error
           /\ pc' = IF parsed.error = NoError THEN "parseSequence" ELSE Threw("parseStimulus")
    /\ UNCHANGED <<instructions, stimulusInstructions, preSequenceInstructions,
                   mainSequenceInstructions, postSequenceInstructions, sequences,
                   calls, other, args, ret>>

parseSequence ==
    /\ pc = "parseSequence"
    /\ LET parsed == ParseSequenceResult(stimulus, preSequenceInstructions,
                                         mainSequenceInstructions,
                                         postSequenceInstructions, sequences)
       IN  /\ sequences' = parsed.sequences
           /\ error' = parsed.error
           /\ pc' = IF parsed.error = NoError THEN "done" ELSE Threw("parseSequence")
    /\ UNCHANGED <<instructions, stimulusInstructions, preSequenceInstructions,
                   mainSequenceInstructions, postSequenceInstructions, stimulus,
                   calls, other, args, ret>>

Next == splitSection \/ parseStimulus \/ parseSequence

Spec == Init /\ [][Next]_vars

SpecOrder == InitOrder /\ [][Next]_vars

(***************************************************************************)
(* Bounds and inputs of the stimulus specification: scripts whose          *)
(* Descriptions section holds at most MaxStimulusLines lines and whose     *)
(* sequence sections are empty                                             *)
(***************************************************************************)
MaxStimulusLines == 2

\* (The font size token of the line T4 starts with a no-break space.)
StimulusLines ==
    {"image I1 a.png true",
     "image I1 a.png false",
     "image I2 b.png",
     "image I3 c.png \"\"",
     "text T1 \"hi yo\" n n",
     "text T1 \"yo\" 12px red",
     "text T2 \"a\" big blue",
     "text T3 \"a\"",
     "text_file F1 f.txt 14 n",
     "text_file F1 f.txt n",
     "audio I1 s.mp3",
     "result R1 r.txt",
     "instruction N1 go",
     "movie I1 m.mp4",
     "image __proto__ a.png",
     "text T4 \"a\"  7 red"}

InitStimulus ==
    \E lines \in SeqsUpTo(StimulusLines, MaxStimulusLines) :
        Constructed(RawScript(CanonicalOrder, <<lines, <<>>, <<>>, <<>>>>, 0))

SpecStimulus == InitStimulus /\ [][Next]_vars

(***************************************************************************)
(* execute() called again on an instance that has already run              *)
(***************************************************************************)
MaxCalls == 3

\* A further call of execute() on the same instance: the fields keep what
\* the earlier call left in them.
execute ==
    /\ pc = "done" \/ Failed
    /\ calls < MaxCalls
    /\ pc' = "splitSection"
    /\ error' = NoError
    /\ calls' = calls + 1
    /\ UNCHANGED <<instructions, stimulusInstructions, preSequenceInstructions,
                   mainSequenceInstructions, postSequenceInstructions, stimulus,
                   sequences, other, args, ret>>

NextRepeat ==
    \/ splitSection
    \/ parseStimulus
    \/ parseSequence
    \/ execute

SpecRepeat == Init /\ [][NextRepeat]_vars

(***************************************************************************)
(* Two Parser instances whose stages interleave: the second instance's     *)
(* fields are the record `other`                                           *)
(***************************************************************************)
MaxTwoLines == 1

TwoDescriptionLines == {"image I1 a.png true", "result R1 r.txt"}
TwoSequenceLines ==
    {"0 s4 100 I1 inf 1 0 n n n n n y", "0 s1 100 n inf n 0 n a 10 f1 f2 y"}

\* The fields the constructor gives a new instance, with execute() entered.
NewInstance(rawInstructions) ==
    [instructions |-> Constructor(rawInstructions),
     stimulusInstructions |-> <<>>,
     preSequenceInstructions |-> <<>>,
     mainSequenceInstructions |-> <<>>,
     postSequenceInstructions |-> <<>>,
     stimulus |-> EmptyObject,
     sequences |-> EmptyObject,
     pc |-> "splitSection",
     error |-> NoError]

InitTwo ==
    \E first, second \in Contents(TwoDescriptionLines, TwoSequenceLines, MaxTwoLines) :
        /\ instructions = Constructor(RawScript(CanonicalOrder, first, 0))
        /\ stimulusInstructions = <<>>
        /\ preSequenceInstructions = <<>>
        /\ mainSequenceInstructions = <<>>
        /\ postSequenceInstructions = <<>>
        /\ stimulus = EmptyObject
        /\ sequences = EmptyObject
        /\ pc = "splitSection"
        /\ error = NoError
        /\ calls = 1
        /\ other = NewInstance(RawScript(CanonicalOrder, second, 0))
        /\ args = <<>>
        /\ ret = NotCalled

otherSplitSection ==
    /\ other.pc = "splitSection"
    /\ LET split == SplitSectionResult(other.instructions, other.stimulusInstructions,
                                       other.preSequenceInstructions,
                                       other.mainSequenceInstructions,
                                       other.postSequenceInstructions)
       IN  other' = [other EXCEPT
                        !.stimulusInstructions = split.stimulusInstructions,
                        !.preSequenceInstructions = split.preSequenceInstructions,
                        !.mainSequenceInstructions = split.mainSequenceInstructions,
                        !.postSequenceInstructions = split.postSequenceInstructions,
                        !.error = split.error,
                        !.pc = IF split.error = NoError THEN "parseStimulus"
                               ELSE Threw("splitSection")]
    /\ UNCHANGED <<instructions, stimulusInstructions, preSequenceInstructions,
                   mainSequenceInstructions, postSequenceInstructions, stimulus,
                   sequences, pc, error, calls, args, ret>>

otherParseStimulus ==
    /\ other.pc = "parseStimulus"
    /\ LET parsed == ParseStimulusResult(other.stimulusInstructions, other.stimulus)
       IN  other' = [other EXCEPT
                        !.stimulus = parsed.stimulus,
                        !.error = parsed.error,
                        !.pc = IF parsed.error = NoError THEN "parseSequence"
                               ELSE Threw("parseStimulus")]
    /\ UNCHANGED <<instructions, stimulusInstructions, preSequenceInstructions,
                   mainSequenceInstructions, postSequenceInstructions, stimulus,
                   sequences, pc, error, calls, args, ret>>

\* A second instance whose lookups read the catalog of the first instance.
otherParseSequenceSharedCatalog ==
    /\ other.pc = "parseSequence"
    /\ LET parsed == ParseSequenceResult(stimulus, other.preSequenceInstructions,
                                         other.mainSequenceInstructions,
                                         other.postSequenceInstructions,
                                         other.sequences)
       IN  other' = [other EXCEPT
                        !.sequences = parsed.sequences,
                        !.error = parsed.error,
                        !.pc = IF parsed.error = NoError THEN "done"
                               ELSE Threw("parseSequence")]
    /\ UNCHANGED <<instructions, stimulusInstructions, preSequenceInstructions,
                   mainSequenceInstructions, postSequenceInstructions, stimulus,
                   sequences, pc, error, calls, args, ret>>

otherParseSequence ==
    /\ other.pc = "parseSequence"
    /\ LET parsed == ParseSequenceResult(other.stimulus, other.preSequenceInstructions,
                                         other.mainSequenceInstructions,
                                         other.postSequenceInstructions,
                                         other.sequences)
       IN  other' = [other EXCEPT
                        !.sequences = parsed.sequences,
                        !.error = parsed.error,
                        !.pc = IF parsed.error = NoError THEN "done"
                               ELSE Threw("parseSequence")]
    /\ UNCHANGED <<instructions, stimulusInstructions, preSequenceInstructions,
                   mainSequenceInstructions, postSequenceInstructions, stimulus,
                   sequences, pc, error, calls, args, ret>>

NextTwo ==
    \/ splitSection
    \/ parseStimulus
    \/ parseSequence
    \/ otherSplitSection
    \/ otherParseStimulus
    \/ otherParseSequence

SpecTwo == InitTwo /\ [][NextTwo]_vars

(***************************************************************************)
(* The legacy class of src/unnamed/part_000: its stages on one instance.   *)
(* this.sections.stimulus and this.sections.sequences.* are kept in the    *)
(* instruction-list variables, this.sequence in `sequences`.               *)
(***************************************************************************)
\* getStimulusByIdentifier of the legacy class: the property read, returned
\* as it is.
legacyGetStimulusByIdentifier(catalog, stimulusIdentifier) ==
    GetProperty(catalog, stimulusIdentifier)

\* splitSection: this.sections is assigned when the four extractions have
\* all returned.
LegacySplitSectionResult(instrs, oldStimulus, oldPre, oldMain, oldPost) ==
    LET d == legacyExtractInstructionsFromSection("Descriptions", instrs)
        p == legacyExtractInstructionsFromSection("PreSeq", instrs)
        m == legacyExtractInstructionsFromSection("MainSeq", instrs)
        q == legacyExtractInstructionsFromSection("PostSeq", instrs)
        failed == {r \in {d, p, m, q} : r.error # NoError}
    IN  IF failed = {}
        THEN [stimulusInstructions |-> d.value,
              preSequenceInstructions |-> p.value,
              mainSequenceInstructions |-> m.value,
              postSequenceInstructions |-> q.value,
              error |-> NoError]
        ELSE [stimulusInstructions |-> oldStimulus,
              preSequenceInstructions |-> oldPre,
              mainSequenceInstructions |-> oldMain,
              postSequenceInstructions |-> oldPost,
              error |-> SectionNotFound]

\* One iteration of the loop of the legacy parseStimulus. The tokens are
\* stored as they are; a missing fontSize or fontColor token evaluates a
\* default that reads its own binding before initialization; the case
\* label Parser.StimulusTypes.VIDEO is undefined.
LegacyDecodeStimulus(catalog, currentStimulusInstruction) ==
    LET splitted == splitWithEscapedCharacter(currentStimulusInstruction, " ", "\"")
        stimulusType == Elem(splitted, 0)
        identifier == Elem(splitted, 1)
    IN  CASE stimulusType = Str("image") ->
               Returned(SetProperty(catalog, PropertyKey(identifier),
                   Obj([stimulusType |-> stimulusType,
                        identifier |-> identifier,
                        filePath |-> Elem(splitted, 2),
                        button |-> Elem(splitted, 3)])))
          [] stimulusType = Str("text") ->
               IF Elem(splitted, 3) = Undefined \/ Elem(splitted, 4) = Undefined
               THEN Thrown(ReferenceError)
               ELSE Returned(SetProperty(catalog, PropertyKey(identifier),
                   Obj([stimulusType |-> stimulusType,
                        identifier |-> identifier,
                        content |-> Elem(splitted, 2),
                        fontSize |-> Elem(splitted, 3),
                        fontColor |-> Elem(splitted, 4)])))
          [] stimulusType = Str("text_file") ->
               IF Elem(splitted, 3) = Undefined \/ Elem(splitted, 4) = Undefined
               THEN Thrown(ReferenceError)
               ELSE Returned(SetProperty(catalog, PropertyKey(identifier),
                   Obj([stimulusType |-> stimulusType,
                        identifier |-> identifier,
                        filePath |-> Elem(splitted, 2),
                        fontSize |-> Elem(splitted, 3),
                        fontColor |-> Elem(splitted, 4)])))
          [] stimulusType \in {Str("audio"), Undefined} ->
               Returned(SetProperty(catalog, PropertyKey(identifier),
                   Obj([stimulusType |-> stimulusType,
                        identifier |-> identifier,
                        filePath |-> Elem(splitted, 2)])))
          [] OTHER -> Thrown(InvalidStimulusType)

RECURSIVE LegacyParseStimulusLoop(_, _, _)
LegacyParseStimulusLoop(instrs, index, catalog) ==
    IF index >= Len(instrs) THEN [stimulus |-> catalog, error |-> NoError]
    ELSE LET decoded == LegacyDecodeStimulus(catalog, instrs[index + 1]) IN
         IF decoded.error # NoError
         THEN [stimulus |-> catalog, error |-> decoded.error]
         ELSE LegacyParseStimulusLoop(instrs, index + 1, decoded.value)

\* parseStimulus of the legacy class starts from `this.stimulus = {}`.
LegacyParseStimulusResult(instrs) == LegacyParseStimulusLoop(instrs, 0, EmptyObject)

\* `x == "inf" ? x : x * 1`
InfOrNumber(token) == IF token = Str("inf") THEN token ELSE ToNumber(token)

\* The choices member of the legacy class: every identifier mapped to what
\* the lookup returns, undefined included.
LegacyResolveChoices(catalog, choices) ==
    IF choices = Str("n") THEN Returned(choices)
    ELSE IF choices = Undefined THEN Thrown(TypeError)
    ELSE LET identifiers == Split(choices[2], ",")
         IN  Returned(Arr([k \in 1..Len(identifiers) |->
                              legacyGetStimulusByIdentifier(catalog, identifiers[k])]))

LegacyDecodeStep(catalog, instruction) ==
    LET splitted == Split(instruction, " ")
        choices == LegacyResolveChoices(catalog, Elem(splitted, 3))
        feedbackType == Elem(splitted, 8)
        attached == FeedbackFields(feedbackType, Elem(splitted, 10), Elem(splitted, 11))
    IN  IF choices.error # NoError THEN Thrown(choices.error)
        ELSE IF attached.error # NoError THEN Thrown(attached.error)
        ELSE Returned(
            [onSetTime |-> ToNumber(Elem(splitted, 0)),
             identifier |-> Elem(splitted, 1),
             stimulusDuration |-> InfOrNumber(Elem(splitted, 2)),
             choices |-> choices.value,
             choiceDuration |-> SentinelOrNumber(Elem(splitted, 4)),
             answer |-> Elem(splitted, 5),
             choiceOnsetRelativeToSim |-> SentinelOrNumber(Elem(splitted, 6)),
             reactionTime |-> SentinelOrNumber(Elem(splitted, 7)),
             feedbackType |-> feedbackType,
             feedbackDuration |-> SentinelOrNumber(Elem(splitted, 9)),
             test |-> Elem(splitted, 12)] @@ attached.value)

RECURSIVE LegacyDecodeSection(_, _, _, _)
LegacyDecodeSection(catalog, instrs, i, buffer) ==
    IF i >= Len(instrs) THEN Returned(buffer)
    ELSE LET step == LegacyDecodeStep(catalog, instrs[i + 1]) IN
         IF step.error # NoError THEN Thrown(step.error)
         ELSE LegacyDecodeSection(catalog, instrs, i + 1, Append(buffer, step.value))

RECURSIVE LegacyParseSequenceLoop(_, _, _, _)
LegacyParseSequenceLoop(catalog, sections, k, seqs) ==
    IF k > Len(sections) THEN [sequences |-> seqs, error |-> NoError]
    ELSE LET buffer == LegacyDecodeSection(catalog, sections[k], 0, <<>>) IN
         IF buffer.error # NoError
         THEN [sequences |-> seqs, error |-> buffer.error]
         ELSE LegacyParseSequenceLoop(catalog, sections, k + 1,
                                      SetProperty(seqs, SequenceNames[k], buffer.value))

\* parseSequence of the legacy class starts from `this.sequence = {}`.
LegacyParseSequenceResult(catalog, pre, main, post) ==
    LegacyParseSequenceLoop(catalog, <<pre, main, post>>, 1, EmptyObject)

MaxLegacyLines == 2

LegacyDescriptionLines ==
    {"image I1 a.png true",
     "text I2 \"hi yo\" n n",
     "text I3 \"a\"",
     "audio A1 s.mp3",
     "video V1 m.mp4",
     ""}

LegacySequenceLines ==
    {"0 s1 100 n inf n 0 n a 10 f1 f2 y",
     "0 s3 n I1,A1 inf 0 0 n c n f1 f2 y",
     "0 s4 100 I1 inf 1 0 n n n n n y",
     "0 s5 100 n inf n 0 n zz n f1 f2 y",
     "0 s6 100 I1,nope inf n 0 n a n f1 f2 y",
     "0 s8 100 n",
     ""}

\* The legacy constructor sets this.instructions only: this.sections,
\* this.stimulus and this.sequence are undefined until a stage assigns them.
InitLegacy ==
    \E content \in Contents(LegacyDescriptionLines, LegacySequenceLines, MaxLegacyLines) :
        /\ instructions = Constructor(RawScript(CanonicalOrder, content, 0))
        /\ stimulusInstructions = Undefined
        /\ preSequenceInstructions = Undefined
        /\ mainSequenceInstructions = Undefined
        /\ postSequenceInstructions = Undefined
        /\ stimulus = Undefined
        /\ sequences = Undefined
        /\ pc = "splitSection"
        /\ error = NoError
        /\ calls = 1
        /\ other = NoOther
        /\ args = <<>>
        /\ ret = NotCalled

legacySplitSection ==
    /\ pc = "splitSection"
    /\ LET split == LegacySplitSectionResult(instructions, stimulusInstructions,
                                             preSequenceInstructions,
                                             mainSequenceInstructions,
                                             postSequenceInstructions)
       IN  /\ stimulusInstructions' = split.stimulusInstructions
           /\ preSequenceInstructions' = split.preSequenceInstructions
           /\ mainSequenceInstructions' = split.mainSequenceInstructions
           /\ postSequenceInstructions' = split.postSequenceInstructions
           /\ error' = split.error
           /\ pc' = IF split.error = NoError THEN "parseStimulus" ELSE Threw("splitSection")
    /\ UNCHANGED <<instructions, stimulus, sequences, calls, other, args, ret>>

legacyParseStimulus ==
    /\ pc = "parseStimulus"
    /\ LET parsed == LegacyParseStimulusResult(stimulusInstructions)
       IN  /\ stimulus' = parsed.stimulus
           /\ error' = parsed.error
           /\ pc' = IF parsed.error = NoError THEN "parseSequence" ELSE Threw("parseStimulus")
    /\ UNCHANGED <<instructions, stimulusInstructions, preSequenceInstructions,
                   mainSequenceInstructions, postSequenceInstructions, sequences,
                   calls, other, args, ret>>

legacyParseSequence ==
    /\ pc = "parseSequence"
    /\ LET parsed == LegacyParseSequenceResult(stimulus, preSequenceInstructions,
                                               mainSequenceInstructions,
                                               postSequenceInstructions)
       IN  /\ sequences' = parsed.sequences
           /\ error' = parsed.error
           /\ pc' = IF parsed.error = NoError THEN "done" ELSE Threw("parseSequence")
    /\ UNCHANGED <<instructions, stimulusInstructions, preSequenceInstructions,
                   mainSequenceInstructions, postSequenceInstructions, stimulus,
                   calls, other, args, ret>>

NextLegacy == legacySplitSection \/ legacyParseStimulus \/ legacyParseSequence

SpecLegacy == InitLegacy /\ [][NextLegacy]_vars

(***************************************************************************)
(* Claims about extractInstructionsFromSection (SpecExtract)               *)
(***************************************************************************)
IndexesOf(lines, line) == {i \in 0..(Len(lines) - 1) : lines[i + 1] = line}
MinOf(S) == CHOOSE m \in S : \A o \in S : m <= o
MaxOf(S) == CHOOSE m \in S : \A o \in S : m >= o

ArgKeyword == args[1]
ArgList == args[2]
StartIndexes == IndexesOf(ArgList, StartMarker(ArgKeyword))
EndIndexes == IndexesOf(ArgList, EndMarker(ArgKeyword))
V2ExtractCalled == ret.fn = "extractInstructionsFromSection"
AnyExtractCalled == ret.fn \in {"extractInstructionsFromSection",
                                "legacyExtractInstructionsFromSection"}

\* The precondition of C1: a start marker occurs and the first end marker
\* occurs after it.
StartBeforeFirstEnd ==
    /\ StartIndexes # {}
    /\ EndIndexes # {}
    /\ MinOf(StartIndexes) < MinOf(EndIndexes)

StartsBeforeFirstEnd == {i \in StartIndexes : i < MinOf(EndIndexes)}

\* C1 as stated: parser.v2.js returns exactly the lines strictly between the
\* FIRST index whose line equals [K] and the first index whose line equals
\* [EndK], also when [K] occurs more than once before [EndK].
C1_FirstStartOriginal ==
    (V2ExtractCalled /\ StartBeforeFirstEnd) =>
        /\ ret.error = NoError
        /\ ret.value = Slice(ArgList, MinOf(StartIndexes) + 1, MinOf(EndIndexes))

\* C1 amended: parser.v2.js returns exactly the lines strictly between the
\* LAST index whose line equals [K] among those preceding the first [EndK],
\* and the first index whose line equals [EndK], in order and excluding both
\* markers.
C1_LastStartBeforeEnd ==
    (V2ExtractCalled /\ StartBeforeFirstEnd) =>
        /\ ret.error = NoError
        /\ ret.value = Slice(ArgList, MaxOf(StartsBeforeFirstEnd) + 1, MinOf(EndIndexes))

\* [K] occurs twice before [EndK] and the two candidate ranges differ.
C1_Witness ==
    /\ V2ExtractCalled
    /\ StartBeforeFirstEnd
    /\ Cardinality(StartsBeforeFirstEnd) >= 2
    /\ ret.error = NoError
    /\ ret.value # <<>>

\* C2 as stated: in every parser version, extraction fails with the
\* section-not-found error and returns no lines whenever the list has no
\* line equal to [K] or no line equal to [EndK].
C2_MissingMarkerFails ==
    (AnyExtractCalled /\ (StartIndexes = {} \/ EndIndexes = {})) =>
        /\ ret.error = SectionNotFound
        /\ ret.value = <<>>

\* The precondition of C3: an end marker precedes every start marker, and a
\* start marker with an end marker after it exists.
EndPrecedesEveryStart ==
    /\ StartIndexes # {}
    /\ EndIndexes # {}
    /\ MinOf(EndIndexes) < MinOf(StartIndexes)
    /\ MaxOf(EndIndexes) > MinOf(StartIndexes)

EndsAfterAStart == {e \in EndIndexes : e > MinOf(StartIndexes)}
StartsBefore(e) == {i \in StartIndexes : i < e}

\* C3 as stated: the end boundary is the first [EndK] that occurs after a
\* [K] has been seen; a list [EndK], ..., [K], x, [EndK] yields the lines
\* between the later [K] and the [EndK] that follows it instead of an error.
C3_EndAfterStartOriginal ==
    (V2ExtractCalled /\ EndPrecedesEveryStart) =>
        /\ ret.error = NoError
        /\ ret.value = Slice(ArgList, MaxOf(StartsBefore(MinOf(EndsAfterAStart))) + 1,
                             MinOf(EndsAfterAStart))

\* C3 amended: the end boundary chosen by parser.v2.js is the first [EndK]
\* line of the list, whether or not a [K] line has been seen: a returned
\* range always ends at the first [EndK], and an [EndK] that precedes every
\* [K] stops the scan, so a list [EndK], ..., [K], x, [EndK] fails with the
\* section-not-found error.
C3_EndIsFirstEnd ==
    V2ExtractCalled =>
        /\ (ret.error = NoError) =>
              /\ EndIndexes # {}
              /\ StartsBeforeFirstEnd # {}
              /\ MaxOf(StartsBeforeFirstEnd) + 1 + Len(ret.value) = MinOf(EndIndexes)
        /\ (EndIndexes # {} /\ StartsBeforeFirstEnd = {}) =>
              /\ ret.error = SectionNotFound
              /\ ret.value = <<>>

\* The shape [EndK], ..., [K], x, [EndK] has been extracted.
C3_Witness ==
    /\ V2ExtractCalled
    /\ EndPrecedesEveryStart
    /\ ret.error = SectionNotFound

(***************************************************************************)
(* Claims about splitWithEscapedCharacter (SpecSplit)                      *)
(***************************************************************************)
ArgText == args[1]
ArgSplitChar == args[2]
ArgPairChar == args[3]
SplitCalled == ret.fn = "splitWithEscapedCharacter"

Positions(text) == 0..(Len(text) - 1)
PairCount(text, pairChar) ==
    Cardinality({i \in Positions(text) : CharAt(text, i) = pairChar})
\* Position i lies inside a quoted span: an odd number of quotes precede it.
InsideSpan(text, pairChar, i) ==
    Cardinality({j \in 0..(i - 1) : CharAt(text, j) = pairChar}) % 2 = 1
OutsideDelimiters(text, splitChar, pairChar) ==
    {i \in Positions(text) : /\ CharAt(text, i) = splitChar
                             /\ CharAt(text, i) # pairChar
                             /\ ~InsideSpan(text, pairChar, i)}

\* The k-th smallest element of a set of numbers.
KthSmallest(S, k) == CHOOSE x \in S : Cardinality({y \in S : y < x}) = k - 1

RECURSIVE Without(_, _)
Without(text, c) ==
    IF text = "" THEN ""
    ELSE IF Head(text) = c THEN Without(Tail(text), c)
    ELSE Head(text) \o Without(Tail(text), c)

Contains(text, c) == \E i \in Positions(text) : CharAt(text, i) = c

\* The k-th token the toggle state machine defines: the characters between
\* the (k-1)-th and the k-th delimiter outside a quoted span, quotes removed.
SpanToken(text, splitChar, pairChar, k) ==
    LET cuts == OutsideDelimiters(text, splitChar, pairChar)
        from == IF k = 1 THEN 0 ELSE KthSmallest(cuts, k - 1) + 1
        to == IF k = Cardinality(cuts) + 1 THEN Len(text) ELSE KthSmallest(cuts, k)
    IN  Without(SubSeq(text, from + 1, to), pairChar)

\* C4: for every text with an even number of quote characters the result is
\* that of the toggle state machine: no token contains the quote character,
\* delimiters inside a quoted span stay in their token, every delimiter
\* outside a quoted span ends a token, the number of tokens is the number of
\* outside delimiters plus one; `a "b c" d` gives [a, b c, d], `x` gives [x].
C4_BalancedQuotesToggle ==
    (SplitCalled /\ PairCount(ArgText, ArgPairChar) % 2 = 0) =>
        LET cuts == OutsideDelimiters(ArgText, ArgSplitChar, ArgPairChar) IN
        /\ ret.error = NoError
        /\ Len(ret.value) = Cardinality(cuts) + 1
        /\ \A k \in 1..Len(ret.value) :
              /\ ~Contains(ret.value[k], ArgPairChar)
              /\ ret.value[k] = SpanToken(ArgText, ArgSplitChar, ArgPairChar, k)
        /\ (ArgText = "a \"b c\" d" /\ ArgSplitChar = " ") => ret.value = <<"a", "b c", "d">>
        /\ (ArgText = "x" /\ ArgSplitChar = " ") => ret.value = <<"x">>

\* A balanced text with a delimiter inside a quoted span and delimiters
\* outside it has been tokenized.
C4_Witness ==
    /\ SplitCalled
    /\ ArgText = "a \"b c\" d"
    /\ ArgSplitChar = " "
    /\ ret.value = <<"a", "b c", "d">>

(***************************************************************************)
(* Claims about the parser stages (Spec, SpecOrder)                        *)
(***************************************************************************)
Tokens(line) == Split(line, " ")
StimulusDecoded == pc \in {"parseSequence", "done"}
Finished == pc = "done" \/ Failed
ParseSequenceRan == pc \in {"done", Threw("parseSequence")}

\* A Descriptions line `audio <id> <path>` or `video <id> <path>`.
AudioVideoLine(line) ==
    /\ Len(Tokens(line)) = 3
    /\ Tokens(line)[1] \in {"audio", "video"}
    /\ \A k \in 1..3 : Tokens(line)[k] # "" /\ ~Contains(Tokens(line)[k], "\"")

\* No later Descriptions line carries the identifier of line i.
LastOfIdentifier(i) ==
    \A j \in (i + 1)..Len(stimulusInstructions) :
        Elem(Tokens(stimulusInstructions[j]), 1) # Elem(Tokens(stimulusInstructions[i]), 1)

\* C5 as stated: for every Descriptions line `audio <id> <path>` or
\* `video <id> <path>`, parseStimulus stores under <id> an entity whose
\* stimulusType is the first token and whose filePath is the third token,
\* and nothing else.
C5_AudioVideoFilePath ==
    StimulusDecoded =>
        \A i \in 1..Len(stimulusInstructions) :
            LET line == stimulusInstructions[i] IN
            (AudioVideoLine(line) /\ LastOfIdentifier(i)) =>
                /\ Tokens(line)[2] \in OwnKeys(stimulus)
                /\ stimulus.own[Tokens(line)[2]] =
                       Obj([stimulusType |-> Str(Tokens(line)[1]),
                            filePath |-> Str(Tokens(line)[3])])

SequenceSections ==
    [pre_sequence |-> preSequenceInstructions,
     main_sequence |-> mainSequenceInstructions,
     post_sequence |-> postSequenceInstructions]

AllSequenceLines ==
    preSequenceInstructions \o mainSequenceInstructions \o postSequenceInstructions

\* The identifiers named by the choices field of a sequence line.
ChoiceIdentifiers(line) ==
    IF Len(Tokens(line)) < 4 \/ Tokens(line)[4] = "n" THEN {}
    ELSE {Split(Tokens(line)[4], ",")[k] : k \in 1..Len(Split(Tokens(line)[4], ","))}

CatalogEntities == {stimulus.own[id] : id \in OwnKeys(stimulus)}

\* C6 as stated: a sequence line whose choices field names any identifier
\* string that parseStimulus did not insert makes parseSequence fail with
\* the unknown-stimulus-identifier error, and no step with a missing or
\* non-stimulus choice is ever appended.
C6_UnknownChoiceFails ==
    /\ pc = "done" =>
          \A k \in 1..Len(AllSequenceLines) :
              ChoiceIdentifiers(AllSequenceLines[k]) \subseteq OwnKeys(stimulus)
    /\ (pc = Threw("parseSequence") /\ error # UnknownStimulusIdentifier) =>
          \E k \in 1..Len(AllSequenceLines) :
              /\ \A j \in 1..k :
                    ChoiceIdentifiers(AllSequenceLines[j]) \subseteq OwnKeys(stimulus)
              /\ \/ Elem(Tokens(AllSequenceLines[k]), 8) \notin
                        {Str("a"), Str("tf"), Str("n"), Str("c")}
                 \/ Len(Tokens(AllSequenceLines[k])) < 4
    /\ \A name \in OwnKeys(sequences) :
          \A i \in 1..Len(sequences.own[name]) :
              LET choices == sequences.own[name][i].choices IN
              \/ choices = Str("n")
              \/ \A k \in 1..Len(choices[2]) : choices[2][k] \in CatalogEntities

\* The feedback keys of a decoded step follow the feedbackType of its line.
StepFollowsFeedback(step, line) ==
    LET t == Tokens(line)
        feedbackType == Elem(t, 8)
    IN  /\ step.feedbackType = feedbackType
        /\ feedbackType \in {Str("a"), Str("tf"), Str("n"), Str("c")}
        /\ feedbackType = Str("a") =>
              /\ {"feedback1", "feedback2"} \subseteq DOMAIN step
              /\ step.feedback1 = Elem(t, 10)
              /\ step.feedback2 = Elem(t, 11)
        /\ feedbackType = Str("tf") =>
              /\ "feedback1" \notin DOMAIN step
              /\ "feedback2" \in DOMAIN step
              /\ step.feedback2 = Elem(t, 11)
        /\ feedbackType \in {Str("n"), Str("c")} =>
              /\ "feedback1" \notin DOMAIN step
              /\ "feedback2" \notin DOMAIN step

BadFeedback(line) ==
    Elem(Tokens(line), 8) \notin {Str("a"), Str("tf"), Str("n"), Str("c")}

\* Every identifier of the choices field is found by the catalog lookup.
ChoicesResolve(line) ==
    /\ Len(Tokens(line)) >= 4
    /\ \A id \in ChoiceIdentifiers(line) : ToBoolean(GetProperty(stimulus, id))

StopsDecoding(line) == BadFeedback(line) \/ ~ChoicesResolve(line)

\* The steps parseSequence has appended follow the feedbackType of their
\* lines, and a section is assigned with one step for each of its lines.
StepsFollowFeedback ==
    \A name \in OwnKeys(sequences) :
        /\ Len(sequences.own[name]) = Len(SequenceSections[name])
        /\ \A i \in 1..Len(sequences.own[name]) :
              StepFollowsFeedback(sequences.own[name][i], SequenceSections[name][i])

\* The error decoding stops with at a line whose feedbackType is none of a,
\* tf, n, c: its choices are resolved first (parser.v2.js:271-277), the
\* feedbackType is examined after them (295-307).
ErrorOfBadFeedback(line) ==
    IF Len(Tokens(line)) < 4 THEN TypeError
    ELSE IF ~ChoicesResolve(line) THEN UnknownStimulusIdentifier
    ELSE InvalidFeedbackType

\* C7 as stated: the fields attached to a decoded step are a function of
\* feedbackType alone: `a` attaches feedback1 (11th token) and feedback2
\* (12th token), `tf` attaches feedback2 only, `n` and `c` attach neither;
\* every other feedbackType value makes parseSequence fail with the
\* invalid-feedback-type error and no step is appended for that line.
C7_FeedbackFields ==
    ParseSequenceRan =>
        /\ StepsFollowFeedback
        /\ \A k \in 1..Len(AllSequenceLines) :
              BadFeedback(AllSequenceLines[k]) =>
                  /\ pc = Threw("parseSequence")
                  /\ error = InvalidFeedbackType

\* C7 as amended: the fields attached to a decoded step are a function of
\* feedbackType alone, as above; every other feedbackType value makes
\* parseSequence fail and no step is appended for that line; at the first
\* line that does not decode the error is the invalid-feedback-type error
\* when the choices of the line resolve, and the error of the choices when
\* they do not (a TypeError for a missing choices token, the
\* unknown-stimulus-identifier error for an identifier that is not found).
C7_FeedbackAfterChoices ==
    ParseSequenceRan =>
        /\ StepsFollowFeedback
        /\ \A k \in 1..Len(AllSequenceLines) :
              BadFeedback(AllSequenceLines[k]) =>
                  /\ pc = Threw("parseSequence")
                  /\ (\A j \in 1..(k - 1) : ~StopsDecoding(AllSequenceLines[j])) =>
                        error = ErrorOfBadFeedback(AllSequenceLines[k])

\* parseSequence has appended an `a` step with both feedback keys to a
\* section, and has then failed with the invalid-feedback-type error on a
\* line of a later section whose feedbackType is zz and whose choices
\* resolve.
C7_Witness ==
    /\ pc = Threw("parseSequence")
    /\ error = InvalidFeedbackType
    /\ \E k \in 1..Len(AllSequenceLines) :
          /\ BadFeedback(AllSequenceLines[k])
          /\ ChoicesResolve(AllSequenceLines[k])
          /\ \A j \in 1..(k - 1) : ~StopsDecoding(AllSequenceLines[j])
    /\ \E name \in OwnKeys(sequences) : \E i \in 1..Len(sequences.own[name]) :
          /\ sequences.own[name][i].feedbackType = Str("a")
          /\ {"feedback1", "feedback2"} \subseteq DOMAIN sequences.own[name][i]

\* C8 as stated: when a stage of execute() raises an error, the parser's
\* catalog and sequences hold no entries produced by the failed run.
C8_NoPartialDocument ==
    Failed => (stimulus = EmptyObject /\ sequences = EmptyObject)

NonBlank(line) == line # ""

\* C9 as stated: blank lines inside the sections are ignored by the decoding
\* stages, so the script compiles to the same document as the script
\* without them.
C9_BlankLinesIgnored ==
    Finished =>
        LET plain == Execute(SelectSeq(instructions, NonBlank)) IN
        /\ stimulus = plain.stimulus
        /\ sequences = plain.sequences
        /\ error = plain.error

\* The block of a section: its lines from the start marker to the end marker.
BlockOf(instrs, keyword) ==
    SubSeq(instrs, MinOf(IndexesOf(instrs, StartMarker(keyword))) + 1,
           MinOf(IndexesOf(instrs, EndMarker(keyword))) + 1)

\* The same script with its four blocks in the canonical order.
CanonicalScript(instrs) ==
    <<instrs[1]>> \o BlockOf(instrs, "Descriptions") \o BlockOf(instrs, "PreSeq")
                  \o BlockOf(instrs, "MainSeq") \o BlockOf(instrs, "PostSeq")

\* C10: for every permutation of the four non-overlapping blocks, execute()
\* produces the catalog and the three sequences of the canonical order; a
\* sequence section placed before Descriptions still resolves its choices.
C10_SectionOrderIrrelevant ==
    Finished =>
        LET canonical == Execute(CanonicalScript(instructions)) IN
        /\ stimulus = canonical.stimulus
        /\ sequences = canonical.sequences
        /\ error = canonical.error

\* A sequence section that precedes Descriptions has resolved a choice.
C10_Witness ==
    /\ pc = "done"
    /\ \E keyword \in {"PreSeq", "MainSeq", "PostSeq"} :
          MinOf(IndexesOf(instructions, StartMarker(keyword))) <
              MinOf(IndexesOf(instructions, StartMarker("Descriptions")))
    /\ \E name \in OwnKeys(sequences) : \E i \in 1..Len(sequences.own[name]) :
          /\ sequences.own[name][i].choices # Str("n")
          /\ sequences.own[name][i].choices[2] # <<>>
          /\ sequences.own[name][i].choices[2][1] \in CatalogEntities

(***************************************************************************)
(* Claims about parseStimulus (SpecStimulus)                               *)
(***************************************************************************)
ParseStimulusRan ==
    pc \in {"parseSequence", "done", Threw("parseStimulus"), Threw("parseSequence")}

\* The tokens of a Descriptions line.
DescriptionTokens(line) == splitWithEscapedCharacter(line, " ", "\"")

ImplementedTypes == {"image", "text", "text_file", "audio", "video"}

\* The first token of the line is not an implemented type tag.
UnknownType(line) ==
    Elem(DescriptionTokens(line), 0) \notin {Str(t) : t \in ImplementedTypes}

\* The catalog key of a line: its identifier (second token).
LineKey(line) == PropertyKey(Elem(DescriptionTokens(line), 1))

\* The entity one accepted line decodes to.
EntityOf(line) ==
    GetProperty(DecodeStimulus(EmptyObject, line).value, LineKey(line))

\* Line j is the last of lines 1..n that carries its identifier.
LastWithKey(lines, j, n) ==
    \A l \in (j + 1)..n : LineKey(lines[l]) # LineKey(lines[j])

\* The catalog has one entry per identifier of lines 1..n, that of the last
\* line carrying it, and nothing else.
CatalogOfFirst(lines, n) ==
    /\ OwnKeys(stimulus) = {LineKey(lines[j]) : j \in 1..n}
    /\ \A j \in 1..n :
          LastWithKey(lines, j, n) => stimulus.own[LineKey(lines[j])] = EntityOf(lines[j])

\* The catalog is what the assignments of lines 1..n leave: an entry per
\* identifier other than __proto__, that of the last line carrying it, and
\* as prototype the entity of the last line with the identifier __proto__,
\* Object.prototype when there is none.
CatalogAfter(lines, n) ==
    /\ OwnKeys(stimulus) = {LineKey(lines[j]) : j \in 1..n} \ {"__proto__"}
    /\ \A j \in 1..n :
          LastWithKey(lines, j, n) =>
              IF LineKey(lines[j]) = "__proto__"
              THEN stimulus.proto = EntityOf(lines[j])
              ELSE stimulus.own[LineKey(lines[j])] = EntityOf(lines[j])
    /\ (\A j \in 1..n : LineKey(lines[j]) # "__proto__") =>
          stimulus.proto = ObjectPrototype

\* C11: a Descriptions line whose first token is not image, text,
\* text_file, audio or video (the declared tags instruction and result
\* included) makes parseStimulus fail with the invalid-stimulus-type error
\* at that line: the catalog holds the entries of the lines before it only,
\* no entry is inserted for the line and no later line is decoded.
C11_UnknownTypeRejected ==
    ParseStimulusRan =>
        \A k \in 1..Len(stimulusInstructions) :
            UnknownType(stimulusInstructions[k]) =>
                /\ pc = Threw("parseStimulus")
                /\ error = InvalidStimulusType
                /\ (\A j \in 1..(k - 1) : ~UnknownType(stimulusInstructions[j])) =>
                       CatalogAfter(stimulusInstructions, k - 1)

\* parseStimulus has stopped at a declared but unimplemented tag that
\* follows an accepted line.
C11_Witness ==
    /\ pc = Threw("parseStimulus")
    /\ Len(stimulusInstructions) = 2
    /\ ~UnknownType(stimulusInstructions[1])
    /\ Elem(DescriptionTokens(stimulusInstructions[2]), 0) \in
           {Str("instruction"), Str("result")}
    /\ OwnKeys(stimulus) = {LineKey(stimulusInstructions[1])}

(***************************************************************************)
(* Claims about parseSequence (Spec)                                       *)
(***************************************************************************)
\* Step i of a sequence is the step decoded from line i of its section.
StepsOfSection(name) ==
    /\ Len(sequences.own[name]) = Len(SequenceSections[name])
    /\ \A i \in 1..Len(sequences.own[name]) :
          /\ sequences.own[name][i] = DecodeStep(stimulus, SequenceSections[name][i]).value
          /\ sequences.own[name][i].identifier = Elem(Tokens(SequenceSections[name][i]), 1)

\* C12: after parseSequence each of pre_sequence, main_sequence and
\* post_sequence holds exactly one step per line of its own section, in
\* line order: step i is decoded from line i, identical lines give separate
\* steps, and no step of one section appears in another sequence.
C12_StepPerLine ==
    pc = "done" =>
        /\ OwnKeys(sequences) = {"pre_sequence", "main_sequence", "post_sequence"}
        /\ \A name \in OwnKeys(sequences) : StepsOfSection(name)

\* One section held the same line twice and gave two steps, while another
\* sequence stayed empty.
C12_Witness ==
    /\ pc = "done"
    /\ \E name \in OwnKeys(sequences) :
          /\ Len(SequenceSections[name]) = 2
          /\ SequenceSections[name][1] = SequenceSections[name][2]
          /\ Len(sequences.own[name]) = 2
          /\ sequences.own[name][1] = sequences.own[name][2]
    /\ \E name \in OwnKeys(sequences) : sequences.own[name] = <<>>

(***************************************************************************)
(* Claims about two instances (SpecTwo)                                    *)
(***************************************************************************)
OtherFinished ==
    other.pc \in {"done", Threw("splitSection"), Threw("parseStimulus"),
                  Threw("parseSequence")}

\* C13: whatever the interleaving of the stages of two instances, each
\* instance ends with the catalog and sequences (or the error) that
\* execute() gives for its own text alone, and two instances built from the
\* same text end with the same document.
C13_RunsIndependent ==
    /\ Finished =>
          LET alone == Execute(instructions) IN
          /\ stimulus = alone.stimulus
          /\ sequences = alone.sequences
          /\ error = alone.error
    /\ OtherFinished =>
          LET alone == Execute(other.instructions) IN
          /\ other.stimulus = alone.stimulus
          /\ other.sequences = alone.sequences
          /\ other.error = alone.error
    /\ (Finished /\ OtherFinished /\ instructions = other.instructions) =>
          /\ stimulus = other.stimulus
          /\ sequences = other.sequences
          /\ error = other.error

\* The first instance has catalogued I1; the second, whose text names I1 as
\* a choice without describing it, has failed on the lookup.
C13_Witness ==
    /\ pc = "done"
    /\ "I1" \in OwnKeys(stimulus)
    /\ other.pc = Threw("parseSequence")
    /\ other.error = UnknownStimulusIdentifier
    /\ other.stimulus = EmptyObject

(***************************************************************************)
(* Claims about the catalog during parseSequence (Spec)                    *)
(***************************************************************************)
\* The identifiers of the choices field of a line, in order.
ChoiceList(line) == Split(Tokens(line)[4], ",")

\* Every element of the choices of a step is the catalog entity of the
\* corresponding identifier of the step's line.
ChoicesAreCatalogEntities ==
    \A name \in OwnKeys(sequences) :
        \A i \in 1..Len(sequences.own[name]) :
            LET choices == sequences.own[name][i].choices
                line == SequenceSections[name][i]
            IN  \/ choices = Str("n") /\ Tokens(line)[4] = "n"
                \/ /\ choices[1] = "array"
                   /\ Len(choices[2]) = Len(ChoiceList(line))
                   /\ \A k \in 1..Len(choices[2]) :
                         /\ ChoiceList(line)[k] \in OwnKeys(stimulus)
                         /\ choices[2][k] = stimulus.own[ChoiceList(line)[k]]

\* C14 as stated: the catalog is read-only once parseStimulus has finished:
\* a parseSequence step, whether it succeeds or fails, leaves the key set
\* and every entity of the catalog unchanged, and every element of a step's
\* choices is equal to the catalog entity of the corresponding identifier.
C14_CatalogReadOnly ==
    /\ [](ParseSequenceRan => ChoicesAreCatalogEntities)
    /\ [][pc = "parseSequence" => stimulus' = stimulus]_vars

(***************************************************************************)
(* Claims about the decoded entities (SpecStimulus)                        *)
(***************************************************************************)
ParseStimulusReturned == pc \in {"parseSequence", "done", Threw("parseSequence")}

\* The lines of the Descriptions section whose entity the catalog holds:
\* those that are the last of their identifier.
SurvivingLines ==
    {j \in 1..Len(stimulusInstructions) :
        LastWithKey(stimulusInstructions, j, Len(stimulusInstructions))}

\* The fields of the entity the catalog gives for the identifier of line j.
CatalogEntry(j) == GetProperty(stimulus, LineKey(stimulusInstructions[j]))[2]

ImageLine(line) == Elem(DescriptionTokens(line), 0) = Str("image")

\* C15 as stated: the button of an image entity is true whenever a token is
\* present in the fourth position, for every value of that token (the
\* literal `false` and an empty token produced by `""` included), and false
\* only when no fourth token is present.
C15_ButtonOriginal ==
    ParseStimulusReturned =>
        \A j \in SurvivingLines :
            ImageLine(stimulusInstructions[j]) =>
                CatalogEntry(j).button =
                    Bool(Len(DescriptionTokens(stimulusInstructions[j])) >= 4)

\* C15 amended: the button of an image entity is true exactly when the
\* fourth token is present and not empty, whatever its text (the literal
\* `false` included); it is false when no fourth token is present and when
\* the fourth token is the empty token produced by `""`.
C15_ButtonNonEmptyToken ==
    ParseStimulusReturned =>
        \A j \in SurvivingLines :
            LET t == DescriptionTokens(stimulusInstructions[j]) IN
            ImageLine(stimulusInstructions[j]) =>
                /\ CatalogEntry(j).stimulusType = Str("image")
                /\ CatalogEntry(j).filePath = Elem(t, 2)
                /\ CatalogEntry(j).button = Bool(Len(t) >= 4 /\ t[4] # "")

\* An image line ending in `false` and an image line ending in `""` have
\* been decoded: the first button is true, the second false.
C15_Witness ==
    /\ ParseStimulusReturned
    /\ \E j \in SurvivingLines :
          /\ stimulusInstructions[j] = "image I1 a.png false"
          /\ CatalogEntry(j).button = Bool(TRUE)
    /\ \E j \in SurvivingLines :
          /\ stimulusInstructions[j] = "image I3 c.png \"\""
          /\ Len(DescriptionTokens(stimulusInstructions[j])) = 4
          /\ CatalogEntry(j).button = Bool(FALSE)

TextLine(line) ==
    Elem(DescriptionTokens(line), 0) \in {Str("text"), Str("text_file")}

\* An integer: a Num, the negative zero, or a Decimal without a fraction.
IsInteger(value) ==
    /\ value[1] = "number"
    /\ \/ Len(value) = 2
       \/ value = NegativeZero
       \/ Len(value) = 4 /\ value[4] >= 0
IsString(value) == value[1] = "string"

\* C16 as stated: for every text or text_file line parseStimulus accepts,
\* the decoded fontSize is null or an integer and the decoded fontColor is
\* null or a string, also when the fontSize or fontColor token is missing or
\* the fontSize token is not a decimal integer.
C16_FontFieldsTyped ==
    ParseStimulusReturned =>
        \A j \in SurvivingLines :
            TextLine(stimulusInstructions[j]) =>
                /\ CatalogEntry(j).fontSize = Null \/ IsInteger(CatalogEntry(j).fontSize)
                /\ CatalogEntry(j).fontColor = Null \/ IsString(CatalogEntry(j).fontColor)

\* C17 as stated: after parseStimulus succeeds the catalog has exactly one entry per
\* distinct identifier occurring as a second token, and the entry of an
\* identifier is the entity decoded from the LAST line that carries it
\* (last write wins, duplicates raise no error).
C17_LastWriteWins ==
    ParseStimulusReturned =>
        /\ CatalogOfFirst(stimulusInstructions, Len(stimulusInstructions))
        /\ \A j \in SurvivingLines :
              CatalogEntry(j).stimulusType =
                  Elem(DescriptionTokens(stimulusInstructions[j]), 0)

(***************************************************************************)
(* More claims about splitWithEscapedCharacter (SpecSplit)                 *)
(***************************************************************************)
\* tokens.join(separator)
RECURSIVE JoinTokens(_, _)
JoinTokens(tokens, separator) ==
    IF tokens = <<>> THEN ""
    ELSE IF Len(tokens) = 1 THEN tokens[1]
    ELSE tokens[1] \o separator \o JoinTokens(Tail(tokens), separator)

\* C18: for every line without a quote character, joining the tokens of
\* splitWithEscapedCharacter(line, ' ', '"') with single spaces reproduces
\* the line, tokenizing the joined string gives the same tokens again, and
\* the tokens are those of plain splitting on spaces (empty tokens for
\* consecutive spaces included).
C18_RoundTrip ==
    (SplitCalled /\ ArgSplitChar = " " /\ ~Contains(ArgText, ArgPairChar)) =>
        /\ ret.error = NoError
        /\ JoinTokens(ret.value, " ") = ArgText
        /\ splitWithEscapedCharacter(JoinTokens(ret.value, " "), " ", ArgPairChar)
               = ret.value
        /\ ret.value = Split(ArgText, " ")

\* A line with two consecutive spaces has been tokenized: it has an empty
\* token between two non-empty ones.
C18_Witness ==
    /\ SplitCalled
    /\ ArgSplitChar = " "
    /\ ~Contains(ArgText, ArgPairChar)
    /\ Len(ret.value) >= 3
    /\ ret.value[1] # ""
    /\ ret.value[2] = ""
    /\ ret.value[3] # ""

OddQuotes == PairCount(ArgText, ArgPairChar) % 2 = 1

QuotePositions == {i \in Positions(ArgText) : CharAt(ArgText, i) = ArgPairChar}
DelimiterPositions == {i \in Positions(ArgText) : CharAt(ArgText, i) = ArgSplitChar}

FirstQuotePrecedesEveryDelimiter ==
    \A i \in DelimiterPositions : MinOf(QuotePositions) < i

\* With an odd number of quotes the final token is not flushed: the result
\* has one token per delimiter outside a quoted span, each the characters up
\* to that delimiter, and the characters after the last of them are lost.
OpenSpanDropsTail ==
    LET cuts == OutsideDelimiters(ArgText, ArgSplitChar, ArgPairChar) IN
    /\ ret.error = NoError
    /\ Len(ret.value) = Cardinality(cuts)
    /\ \A k \in 1..Len(ret.value) :
          ret.value[k] = SpanToken(ArgText, ArgSplitChar, ArgPairChar, k)

\* C19 as stated: for every text with an odd number of quote characters the
\* final token is never flushed and the result has exactly as many tokens as
\* there are delimiters outside quoted spans, which is zero tokens when the
\* first quote precedes every delimiter.
C19_OddQuotesOriginal ==
    (SplitCalled /\ OddQuotes) =>
        /\ OpenSpanDropsTail
        /\ FirstQuotePrecedesEveryDelimiter => ret.value = <<>>

\* C19 amended: for every text with an odd number of quote characters the
\* final token is never flushed and the result has exactly as many tokens as
\* there are delimiters outside quoted spans; it has zero tokens exactly when
\* no delimiter lies outside a quoted span, as when the only quote of the
\* text precedes every delimiter.
C19_OddQuotesDropTail ==
    (SplitCalled /\ OddQuotes) =>
        /\ OpenSpanDropsTail
        /\ ret.value = <<>> <=>
               OutsideDelimiters(ArgText, ArgSplitChar, ArgPairChar) = {}
        /\ (PairCount(ArgText, ArgPairChar) = 1 /\ FirstQuotePrecedesEveryDelimiter) =>
               ret.value = <<>>

\* A text with three quotes has been tokenized: its first quote precedes
\* every delimiter, a delimiter lies between the closed span and the open
\* one, and a token has been returned while the tail was dropped.
C19_Witness ==
    /\ SplitCalled
    /\ PairCount(ArgText, ArgPairChar) = 3
    /\ FirstQuotePrecedesEveryDelimiter
    /\ Len(ret.value) = 1
    /\ CharAt(ArgText, Len(ArgText) - 1) = "a"

(***************************************************************************)
(* Claims about repeated execute() calls (SpecRepeat)                      *)
(***************************************************************************)
\* C20: execute() is idempotent on one instance: after any number of
\* successful execute() calls the catalog and the three sequences are those
\* of the first call on the freshly constructed instance; nothing
\* accumulates or is duplicated, although parseStimulus does not reset the
\* catalog.
C20_ExecuteIdempotent ==
    pc = "done" =>
        LET first == Execute(instructions) IN
        /\ first.error = NoError
        /\ stimulus = first.stimulus
        /\ sequences = first.sequences

\* A third execute() call has succeeded on an instance with a catalog entry
\* and a decoded step.
C20_Witness ==
    /\ pc = "done"
    /\ calls = 3
    /\ stimulus # EmptyObject
    /\ \E name \in OwnKeys(sequences) : sequences.own[name] # <<>>

(***************************************************************************)
(* Claims about the legacy class (SpecLegacy)                              *)
(***************************************************************************)
\* C21 as stated: in the legacy class a sequence line whose choices field
\* names an identifier absent from the catalog makes parseSequence fail, and
\* no step is ever appended whose choices list holds a missing (undefined)
\* entry.
C21_LegacyUnknownChoiceFails ==
    /\ pc = "done" =>
          \A k \in 1..Len(AllSequenceLines) :
              ChoiceIdentifiers(AllSequenceLines[k]) \subseteq OwnKeys(stimulus)
    /\ ParseSequenceRan =>
          \A name \in OwnKeys(sequences) :
              \A i \in 1..Len(sequences.own[name]) :
                  LET choices == sequences.own[name][i].choices IN
                  \/ choices = Str("n")
                  \/ \A k \in 1..Len(choices[2]) : choices[2][k] # Undefined

====
